---- MODULE Spec2Model ----
(***************************************************************************)
(* The reason-act-observe cycle of the investment agent, in its two        *)
(* orchestrator variants:                                                  *)
(*   "root"  : src/main.py                  (repetition guard, fallbacks)  *)
(*   "agent" : src/investment-agent/main.py (deadline, error streak,       *)
(*                                           forced HOLD on the last step) *)
(* One cycle is one invocation of run_investment_cycle.  The language      *)
(* model, the spreadsheet API and the clock are the environment: what they *)
(* answer is drawn from small sets in each action.                         *)
(* Money is counted in whole currency units.                               *)
(***************************************************************************)
EXTENDS Integers, Sequences, FiniteSets, TLC

VARIABLES
    variant,            \* which main.py is deployed: "root" or "agent"
    sheets,             \* module-level handle: TRUE = SheetsTool built, FALSE = None
    pc,                 \* position in run_investment_cycle
    i,                  \* loop index of `for i in range(MAX_REASONING_STEPS)`
    cash_on_hand,       \* in-memory cash read at the start of the cycle
    history,            \* the history string, as the sequence of pieces appended
    recent_actions,     \* root: the last (up to 3) action signatures
    consecutive_errors, \* agent: the error streak
    elapsed_time,       \* agent: the last value computed at the loop top
    ledger_cash,        \* the ledger cell CASH_ON_HAND_CELL
    transactions,       \* rows appended to Transactions_OSV by this cycle
    trade,              \* the accepted final decision (action, quantity, price)
    outcome,            \* what run_investment_cycle returned (message, status)
    event,              \* the path the latest step took through the code
    model_calls,        \* number of orchestrator-level call_grok_api calls
    dispatches,         \* number of tool executions / final decisions handled
    grok,               \* the running call_grok_api of src/investment-agent/main.py
    concurrent,         \* two cycles at once on one ledger: the ledger and their locals
    prompting,          \* the history as text and what build_react_prompt shows of it
    signing,            \* root: the decisions as decoded (key order kept) and their signatures
    pricing             \* a running get_accurate_stock_price / get_multiple_stock_prices

vars == <<variant, sheets, pc, i, cash_on_hand, history, recent_actions,
          consecutive_errors, elapsed_time, ledger_cash, transactions, trade,
          outcome, event, model_calls, dispatches, grok, concurrent, prompting,
          signing, pricing>>

----------------------------------------------------------------------------
(* Program constants *)

MAX_REASONING_STEPS == 6
ROOT_MAX_REASONING_STEPS == 5
MAX_FUNCTION_RUNTIME == 540
FORCE_DECISION_STEP == 5
ERROR_CEILING == 3
LOOP_WINDOW == 3
CASH_ON_HAND_CELL == "Portfolio Summary!B3"
DEFAULT_MAX_RETRIES == 3
DEFAULT_PRICE_RETRIES == 2
PLAIN_TIMEOUT == 90
LIVE_SEARCH_TIMEOUT == 120
TIMEOUT_STEP == 30
HISTORY_WINDOW == 4000
ROOT_HISTORY_WINDOW == 2000

(* Bounds of the model *)

MaxQuantity == 2
MaxPrice == 2
MaxCash == 2
MaxRetries == 3
MaxAppends == 3
MaxSymbols == 3

----------------------------------------------------------------------------
(* Values that cross the JSON / spreadsheet boundary *)

Num(n) == [t |-> "num", v |-> n]          \* a JSON / Python number
Str(s) == [t |-> "str", v |-> s]          \* a string that is not a number
Cur(n) == [t |-> "cur", v |-> n]          \* a currency-formatted string, "$1,234"
Null == [t |-> "null"]                    \* None

Get(p, k, default) == IF k \in DOMAIN p THEN p[k] ELSE default

\* clean_and_convert_to_float: numbers pass, "$" and "," are stripped from
\* strings, and what is left must parse as a float.
CanConvertToFloat(x) == x.t \in {"num", "cur"}
clean_and_convert_to_float(x) == x.v

\* float(parameters.get(...)): only numbers convert; None and words raise.
FloatOk(x) == x.t = "num"

\* str.upper() on the model's action words
UpperLeavesAsWritten(s) == s
Upper(s) ==
    CASE s = "buy" -> "BUY"
      [] s = "sell" -> "SELL"
      [] s = "hold" -> "HOLD"
      [] s = "wait" -> "WAIT"
      [] OTHER -> s

----------------------------------------------------------------------------
(* Outcomes: the (message, status) pairs the function returns *)

Outcome(m, s) == [msg |-> m, status |-> s]
NoOutcome == Outcome("", 0)
NotInitialized == Outcome("A critical component was not initialized.", 500)
InitialStateUnreadable == Outcome("Could not read initial state from sheet.", 500)
TimeoutHold == Outcome("Emergency HOLD decision due to timeout.", 200)
ApiErrorsHold == Outcome("Emergency HOLD decision due to API errors.", 200)
ParsingErrorsHold == Outcome("Emergency HOLD decision due to parsing errors.", 200)
ForcedHold == Outcome("HOLD decision made - analysis complete.", 200)
Completed == Outcome("Investment cycle completed.", 200)
MaxStepsEnded == Outcome("Cycle ended due to max steps.", 200)
\* an exception that leaves run_investment_cycle: the framework answers 500
Unhandled == Outcome("unhandled exception", 500)

NoTrade == [action |-> "NONE", quantity |-> 0, price |-> 0]

----------------------------------------------------------------------------
(* What the language model may answer *)

NoTool == ""                                \* tool_name None / missing / empty
FINAL_DECISION == "final_decision"
STOCK_REF_CELL == "Stock_Ref!A1"

Quantities == (0 - 1) .. MaxQuantity
Prices == 1 .. MaxPrice

Decision(t, p) == [tool_name |-> t, parameters |-> p]

TradeDecisions ==
    { Decision(FINAL_DECISION,
               [action |-> Str(a), quantity |-> Num(q), target_price |-> Num(p)]) :
        a \in {"BUY", "SELL"}, q \in Quantities, p \in Prices }

OtherFinalDecisions ==
    { Decision(FINAL_DECISION, [action |-> Str("HOLD"), quantity |-> Num(0)]),
      Decision(FINAL_DECISION, [quantity |-> Num(1), target_price |-> Num(1)]),
      Decision(FINAL_DECISION,
               [action |-> Str("buy"), quantity |-> Num(1), target_price |-> Num(1)]),
      Decision(FINAL_DECISION,
               [action |-> Str("SELL"), quantity |-> Null, target_price |-> Num(1)]),
      Decision(FINAL_DECISION, [action |-> Null]) }

ToolDecisions ==
    { Decision("web_search", [query |-> Str("market news")]),
      Decision("get_multiple_stock_prices", [symbols |-> Str("AAPL")]),
      Decision("sheets_get_cell_value", [cell_notation |-> Str(CASH_ON_HAND_CELL)]),
      Decision("sheets_get_cell_value", [cell |-> Str(CASH_ON_HAND_CELL)]),
      Decision("sheets_update_cell_value",
               [cell_notation |-> Str(CASH_ON_HAND_CELL), value |-> Num(0)]),
      Decision("place_order", [symbol |-> Str("AAPL")]),
      Decision(NoTool, <<>>) }

Decisions == TradeDecisions \cup OtherFinalDecisions \cup ToolDecisions

NoDecision == Decision(NoTool, <<>>)

\* kind: "empty"       None or "" (call_grok_api failed or answered nothing)
\*       "undecodable" text that is not JSON and holds no decodable {...} span
\*       "embedded"    text around a JSON object
\*       "nonmapping"  JSON that is not an object with an object-valued action
\*       "json"        the JSON object asked for
Responses ==
    { [kind |-> k, decision |-> NoDecision] : k \in {"empty", "undecodable", "nonmapping"} }
    \cup { [kind |-> "json", decision |-> d] : d \in Decisions }
    \cup { [kind |-> "embedded", decision |-> d] : d \in OtherFinalDecisions \cup ToolDecisions }

\* A response text, by what decoding makes of it.
\*   strict: json.loads(response_text)
\*   span:   json.loads of the span from the first '{' to the last '}'
\* each one of
\*   "fails"     json.JSONDecodeError
\*   "none"      (span only) the text holds no '{' ... '}'
\*   "decision"  an object whose action is an object, or that has no action
\*   "badaction" an object whose action is null, a string, a list, a number
\*   "other"     (strict only) JSON that is no object: a list, a string, ...
\* A text that is an object is its own span.
Texts ==
    { x \in [strict : {"fails", "decision", "badaction", "other"},
             span : {"none", "fails", "decision", "badaction"}] :
        /\ x.strict = "decision" => x.span = "decision"
        /\ x.strict = "badaction" => x.span = "badaction" }

\* lines 513-521: strict first, the span only after a JSONDecodeError
DecodedSpanFirst(x) ==
    IF x.span \in {"decision", "badaction"} THEN x.span
    ELSE IF x.strict = "fails" THEN "fails" ELSE x.strict
Decoded(x) ==
    IF x.strict # "fails" THEN x.strict
    ELSE IF x.span = "none" THEN "fails"
    ELSE x.span

\* the kind of response the agent variant's loop body sees
ParseKind(x) ==
    CASE Decoded(x) = "decision" ->
            (IF x.strict = "decision" THEN "json" ELSE "embedded")
      [] Decoded(x) = "fails" -> "undecodable"
      [] OTHER -> "nonmapping"

\* the values time.time() - start_time may take at a loop top
Times == {0, MAX_FUNCTION_RUNTIME, MAX_FUNCTION_RUNTIME + 1}

InitialLedgerCash == {Cur(0), Cur(MaxCash), Str("N/A")}

----------------------------------------------------------------------------
(* The program state as one record, and the two ways an iteration ends *)

State ==
    [pc |-> pc, i |-> i, cash_on_hand |-> cash_on_hand, history |-> history,
     recent_actions |-> recent_actions, consecutive_errors |-> consecutive_errors,
     elapsed_time |-> elapsed_time, ledger_cash |-> ledger_cash,
     transactions |-> transactions, trade |-> trade, outcome |-> outcome,
     event |-> event, model_calls |-> model_calls, dispatches |-> dispatches]

CycleBecomes(s) ==
    /\ pc' = s.pc
    /\ i' = s.i
    /\ cash_on_hand' = s.cash_on_hand
    /\ history' = s.history
    /\ recent_actions' = s.recent_actions
    /\ consecutive_errors' = s.consecutive_errors
    /\ elapsed_time' = s.elapsed_time
    /\ ledger_cash' = s.ledger_cash
    /\ transactions' = s.transactions
    /\ trade' = s.trade
    /\ outcome' = s.outcome
    /\ event' = s.event
    /\ model_calls' = s.model_calls
    /\ dispatches' = s.dispatches

Becomes(s) ==
    /\ CycleBecomes(s)
    /\ UNCHANGED <<variant, sheets, grok, concurrent, prompting, signing, pricing>>

\* `return (message, status)`
Return(s, o, ev) == [s EXCEPT !.pc = "done", !.outcome = o, !.event = ev]

\* an exception nobody catches
Raise(s, ev) == Return(s, Unhandled, ev)

\* `continue`, or falling off the end of the loop body: the next index, and
\* after the last one the statements behind the loop
Continue(s, ev, steps) ==
    IF s.i + 1 < steps
    THEN [s EXCEPT !.i = @ + 1, !.event = ev]
    ELSE [s EXCEPT !.i = @ + 1, !.pc = "done", !.outcome = MaxStepsEnded, !.event = ev]

\* `break`
BreakGoesOn(s, ev) == [s EXCEPT !.i = @ + 1, !.event = ev]
Break(s, ev) == Return(s, MaxStepsEnded, ev)

Forgotten(s, piece) == s
Noted(s, piece) == [s EXCEPT !.history = Append(@, piece)]

----------------------------------------------------------------------------
(* final_decision: the funds check and the start of the commit.            *)
(* The block is the same in both variants.                                 *)

IsTradeBuyOnly(action) == action \in {"BUY"}
IsTrade(action) == action \in {"BUY", "SELL"}

trade_value(quantity, price) == quantity * price

InsufficientFundsWrongSide(action, value, cash) == action = "SELL" /\ value > cash
InsufficientFundsAtEqual(action, value, cash) == action = "BUY" /\ value >= cash
InsufficientFundsEitherSide(action, value, cash) == value > cash
InsufficientFunds(action, value, cash) == action = "BUY" /\ value > cash

new_cash_balance_always_minus(action, cash, value) == cash - value
new_cash_balance(action, cash, value) ==
    IF action = "BUY" THEN cash - value ELSE cash + value

\* a decision that is no trade: nothing is written, and
\* `return ("Investment cycle completed.", 200)`
HoldReturn(s, action) ==
    Return([s EXCEPT !.trade = [action |-> action, quantity |-> 0, price |-> 0]],
           Completed, "hold")

FinalDecision(s, parameters, steps) ==
    LET raw == Get(parameters, "action", Str("HOLD"))
        s1 == [s EXCEPT !.dispatches = @ + 1]
    IN  IF raw.t # "str"
        THEN Raise(s1, "bad_action")                \* None.upper()
        ELSE
        LET action == Upper(raw.v) IN
        IF IsTrade(action)
        THEN
            LET q == Get(parameters, "quantity", Num(0))
                p == Get(parameters, "target_price", Num(0))
            IN  IF ~(FloatOk(q) /\ FloatOk(p))
                THEN Raise(s1, "bad_number")        \* float(None)
                ELSE
                LET value == trade_value(q.v, p.v) IN
                IF InsufficientFunds(action, value, s.cash_on_hand)
                THEN Continue(Noted(s1, "insufficient_funds"), "insufficient_funds", steps)
                ELSE [s1 EXCEPT !.pc = "log_transaction",
                                !.trade = [action |-> action, quantity |-> q.v, price |-> p.v],
                                !.event = "commit"]
        ELSE HoldReturn(s1, action)

----------------------------------------------------------------------------
(* The tools other than final_decision *)

AgentTools ==
    {"web_search", "get_current_stock_price", "validate_stock_price",
     "get_multiple_stock_prices", "get_stock_price_history",
     "analyze_portfolio_performance", "find_trending_stocks",
     "check_major_bank_ratings", "get_stock_transaction_history",
     "sheets_get_cell_value", "sheets_get_range_values", "sheets_update_cell_value"}

RootTools == {"sheets_get_cell_value", "sheets_update_cell_value", "web_search"}

\* the keyword arguments `**parameters` must be exactly the function's
Signature(tool) ==
    CASE tool = "sheets_get_cell_value" -> {"cell_notation"}
      [] tool = "sheets_get_range_values" -> {"range_notation"}
      [] tool = "sheets_update_cell_value" -> {"cell_notation", "value"}
      [] OTHER -> {}

IsSheetsCall(tool) ==
    tool \in {"sheets_get_cell_value", "sheets_get_range_values", "sheets_update_cell_value"}

\* does the executor raise?  Only the spreadsheet calls can: the research
\* tools catch what their HTTP calls raise and answer with a text.
ToolRaises(d, api_ok) ==
    IsSheetsCall(d.tool_name) /\ (DOMAIN d.parameters # Signature(d.tool_name) \/ ~api_ok)

\* what the executor does to the ledger
ToolEffectRefreshesCash(s, d) ==
    IF d.tool_name = "sheets_update_cell_value"
       /\ d.parameters.cell_notation = Str(CASH_ON_HAND_CELL)
    THEN [s EXCEPT !.ledger_cash = d.parameters.value,
                   !.cash_on_hand = d.parameters.value.v]
    ELSE s

ToolEffect(s, d) ==
    IF d.tool_name = "sheets_update_cell_value"
       /\ d.parameters.cell_notation = Str(CASH_ON_HAND_CELL)
    THEN [s EXCEPT !.ledger_cash = d.parameters.value]
    ELSE s

----------------------------------------------------------------------------
(* src/investment-agent/main.py: one pass through the loop body *)

DeadlineExceededLate(elapsed) == elapsed > 2 * MAX_FUNCTION_RUNTIME
DeadlineExceeded(elapsed) == elapsed > MAX_FUNCTION_RUNTIME

ErrorCeilingPassed(errors) == errors > ERROR_CEILING
ErrorCeilingReached(errors) == errors >= ERROR_CEILING

\* `consecutive_errors = 0` after a decision was parsed
StreakKept(s) == s
ResetStreak(s) == [s EXCEPT !.consecutive_errors = 0]

\* json.loads, then the {...} span, then .get on the result
AgentParses(r) == r.kind \in {"json", "embedded"}

ForcesDecisionNever(step, tool_name) == FALSE
ForcesDecision(step, tool_name) ==
    step >= FORCE_DECISION_STEP /\ tool_name # FINAL_DECISION

AgentToolRunsAnything(s, d, api_ok) ==
    Continue(Noted([s EXCEPT !.dispatches = @ + 1], "observation"), "tool",
             MAX_REASONING_STEPS)

AgentTool(s, d, api_ok) ==
    IF d.tool_name \in AgentTools
    THEN LET s1 == [s EXCEPT !.dispatches = @ + 1] IN
         IF ToolRaises(d, api_ok)
         THEN Continue(Noted(s1, "observation"), "tool_error", MAX_REASONING_STEPS)
         ELSE Continue(Noted(ToolEffect(s1, d), "observation"), "tool", MAX_REASONING_STEPS)
    ELSE Continue(Noted(s, "observation"), "unknown_tool", MAX_REASONING_STEPS)

AgentFailure(s, o, ev, note) ==
    LET s1 == [s EXCEPT !.consecutive_errors = @ + 1] IN
    IF ErrorCeilingReached(s1.consecutive_errors)
    THEN Return(s1, o, ev)
    ELSE Continue(IF note THEN Noted(s1, "grok_error") ELSE s1, ev, MAX_REASONING_STEPS)

AgentBody(s, elapsed, r, api_ok) ==
    LET s1 == [s EXCEPT !.elapsed_time = elapsed] IN
    IF DeadlineExceeded(elapsed)
    THEN Return(s1, TimeoutHold, "timeout")
    ELSE
    LET s2 == [s1 EXCEPT !.model_calls = @ + 1] IN
    IF r.kind = "empty"
    THEN AgentFailure(s2, ApiErrorsHold, "empty_response", FALSE)
    ELSE IF ~AgentParses(r)
    THEN AgentFailure(s2, ParsingErrorsHold, "parse_error", TRUE)
    ELSE
    LET d == r.decision
        s3 == ResetStreak(s2)
    IN  IF d.tool_name = NoTool
        THEN Break(s3, "declined")
        ELSE IF ForcesDecision(s.i, d.tool_name)
        THEN Return(s3, ForcedHold, "forced_hold")
        ELSE IF d.tool_name = FINAL_DECISION
        THEN FinalDecision(s3, d.parameters, MAX_REASONING_STEPS)
        ELSE AgentTool(s3, d, api_ok)

----------------------------------------------------------------------------
(* src/main.py: one pass through the loop body *)

\* what the orchestrator chooses itself when the answer is empty or not JSON
RootFallbackDeclines(step, kind) == NoDecision
RootFallback(step, kind) ==
    IF step = 0
    THEN Decision("sheets_get_cell_value", [cell_notation |-> Str(STOCK_REF_CELL)])
    ELSE IF kind = "empty"
    THEN Decision(FINAL_DECISION,
                  [action |-> Str("HOLD"), symbol |-> Null,
                   quantity |-> Num(0), target_price |-> Null])
    ELSE Decision(FINAL_DECISION,
                  [action |-> Str("HOLD"), symbol |-> Str("N/A"),
                   quantity |-> Num(0), target_price |-> Num(0)])

\* f"{tool_name}({json.dumps(parameters, sort_keys=True)})"
action_signature(d) == <<d.tool_name, d.parameters>>

\* append, and drop the oldest beyond the window
RememberEverything(recent, sig) == Append(recent, sig)
Remember(recent, sig) ==
    LET r == Append(recent, sig) IN
    IF Len(r) > LOOP_WINDOW THEN Tail(r) ELSE r

LoopDetectedBeyondWindow(recent) ==
    Len(recent) > LOOP_WINDOW /\ Cardinality({recent[k] : k \in 1 .. Len(recent)}) = 1
LoopDetected(recent) ==
    Len(recent) >= LOOP_WINDOW /\ Cardinality({recent[k] : k \in 1 .. Len(recent)}) = 1

RootTool(s, d, api_ok) ==
    IF d.tool_name \in RootTools
    THEN LET s1 == [s EXCEPT !.dispatches = @ + 1] IN
         IF ToolRaises(d, api_ok)
         THEN Raise(s1, "tool_error")
         ELSE Continue(Noted(ToolEffect(s1, d), "observation"), "tool",
                       ROOT_MAX_REASONING_STEPS)
    ELSE Continue(Noted(s, "observation"), "unknown_tool", ROOT_MAX_REASONING_STEPS)

RootDispatch(s, d, api_ok) ==
    IF d.tool_name = NoTool
    THEN Break(s, "declined")
    ELSE
    LET s1 == [s EXCEPT !.recent_actions = Remember(@, action_signature(d))] IN
    IF LoopDetected(s1.recent_actions)
    THEN Continue(Noted(s1, "loop_detected"), "loop_detected", ROOT_MAX_REASONING_STEPS)
    ELSE IF d.tool_name = FINAL_DECISION
    THEN FinalDecision(s1, d.parameters, ROOT_MAX_REASONING_STEPS)
    ELSE RootTool(s1, d, api_ok)

RootBody(s, r, api_ok) ==
    LET s1 == [s EXCEPT !.model_calls = @ + 1] IN
    IF r.kind = "nonmapping"
    THEN Continue(Noted(s1, "api_error"), "api_error", ROOT_MAX_REASONING_STEPS)
    ELSE IF r.kind = "json"
    THEN RootDispatch(s1, r.decision, api_ok)
    ELSE RootDispatch(s1, RootFallback(s.i, r.kind), api_ok)

----------------------------------------------------------------------------
(* src/main.py: the action signature, with the key order of the decoded
   parameters kept.  A Python dict remembers the order in which its keys
   were written, so `parameters` is a sequence of <<key, value>> items;
   the records used above are its mapping, which forgets the order. *)

\* the keys in the order Python sorts strings
SORTED_KEYS ==
    <<"action", "cell", "cell_notation", "quantity", "query", "symbol", "symbols",
      "target_price", "value">>

KeyRank(key) == CHOOSE n \in 1 .. Len(SORTED_KEYS) : SORTED_KEYS[n] = key

Orders(n) == { f \in [1 .. n -> 1 .. n] : \A a, b \in 1 .. n : f[a] = f[b] => a = b }

\* a dict with the mapping p whose keys were written in the order `keys`
dict_items(p, keys) == [k \in 1 .. Len(keys) |-> <<keys[k], p[keys[k]]>>]

\* every dict whose mapping is p
Orderings(p) ==
    LET n == Cardinality(DOMAIN p) IN
    { dict_items(p, keys) : keys \in { ks \in [1 .. n -> DOMAIN p] :
                                        \A a, b \in 1 .. n : ks[a] = ks[b] => a = b } }

AsMapping(items) ==
    [key \in { items[n][1] : n \in 1 .. Len(items) } |->
        (items[CHOOSE n \in 1 .. Len(items) : items[n][1] = key])[2]]

\* json.dumps(parameters, sort_keys=...): the members in the dict's order,
\* or in the order of their keys
json_dumps_as_written(items, sort_keys) == items
json_dumps(items, sort_keys) ==
    IF sort_keys
    THEN LET f == CHOOSE g \in Orders(Len(items)) :
                    \A a, b \in 1 .. Len(items) :
                        a < b => KeyRank(items[g[a]][1]) < KeyRank(items[g[b]][1])
         IN  [k \in 1 .. Len(items) |-> items[f[k]]]
    ELSE items

\* f"{tool_name}({json.dumps(parameters, sort_keys=True)})"
signature_text(tool_name, items) == <<tool_name, json_dumps(items, TRUE)>>

\* the key order of the two dict literals the orchestrator writes itself
FallbackItems(step, kind) ==
    LET d == RootFallback(step, kind) IN
    dict_items(d.parameters,
               IF step = 0 THEN <<"cell_notation">>
               ELSE <<"action", "symbol", "quantity", "target_price">>)

\* what one iteration has after decoding: a raised exception, or tool_name
\* and parameters
Chosen(tool_name, items) == [raised |-> FALSE, tool_name |-> tool_name, items |-> items]
Raised == [raised |-> TRUE, tool_name |-> NoTool, items |-> <<>>]

SignDecisions ==
    { Decision("web_search", [query |-> Str("market news")]),
      Decision("sheets_update_cell_value",
               [cell_notation |-> Str(CASH_ON_HAND_CELL), value |-> Num(0)]),
      Decision(FINAL_DECISION, [action |-> Str("HOLD"), quantity |-> Num(0)]),
      Decision(NoTool, <<>>) }

\* lines 226-278 of src/main.py
Choices(step) ==
    UNION { { Chosen(d.tool_name, o) : o \in Orderings(d.parameters) } : d \in SignDecisions }
    \cup { Chosen(RootFallback(step, kind).tool_name, FallbackItems(step, kind)) :
              kind \in {"empty", "undecodable"} }
    \cup { Raised }

NoSigning == [pc |-> "none", i |-> 0, recent_actions |-> <<>>, chosen |-> <<>>,
              event |-> "none"]

----------------------------------------------------------------------------
(* The commit: log_transaction, then update_cell_value, then the return *)

\* SheetsTool.log_transaction and SheetsTool.update_cell_value print the
\* error and re-raise it
log_transaction_failed(s) == Raise(s, "log_failed")

CommitNoReturn(s) == [s EXCEPT !.pc = "loop", !.event = "committed"]
CommitReturn(s) == Return(s, Completed, "committed")

update_cell_value_swallowed(s) == CommitReturn([s EXCEPT !.event = "update_failed"])
update_cell_value_failed(s) == Raise(s, "update_failed")

LogBody(s, api_ok) ==
    IF api_ok
    THEN [s EXCEPT !.transactions = Append(@, s.trade), !.pc = "update_cash",
                   !.event = "logged"]
    ELSE log_transaction_failed(s)

UpdateBody(s, api_ok) ==
    IF api_ok
    THEN CommitReturn([s EXCEPT !.ledger_cash =
            Num(new_cash_balance(s.trade.action, s.cash_on_hand,
                                 trade_value(s.trade.quantity, s.trade.price)))])
    ELSE update_cell_value_failed(s)

----------------------------------------------------------------------------
(* call_grok_api of src/investment-agent/main.py, and web_search which     *)
(* calls it twice.  One activation is the record `grok`; `waited` adds up  *)
(* the seconds of the timeouts that expired and of the backoff sleeps of   *)
(* one model call or one tool dispatch (an answer that arrives is counted  *)
(* as taking no time); `slept` adds up the sleeps of the activation.      *)

\* what one requests.post may end in
\*   "ok"         200 and a message with text
\*   "blank"      200 and a message whose text strips to ""
\*   "timeout"    requests.exceptions.Timeout
\*   "transport"  any other requests exception, raise_for_status included
\*   "malformed"  a body that is no JSON or has no choices[0].message.content
HttpAnswers == {"ok", "blank", "timeout", "transport", "malformed"}

Pending == [t |-> "pending"]

NoCall ==
    [pc |-> "idle", caller |-> "none", use_live_search |-> FALSE, max_retries |-> 0,
     attempt |-> 0, posts |-> 0, waited |-> 0, slept |-> 0, last |-> "none",
     result |-> Pending, calls |-> 0, requests |-> 0]

\* timeout = 120 + (attempt * 30) with live search, else 90 + (attempt * 30)
timeout(use_live_search, attempt) ==
    IF use_live_search
    THEN LIVE_SEARCH_TIMEOUT + attempt * TIMEOUT_STEP
    ELSE PLAIN_TIMEOUT + attempt * TIMEOUT_STEP

\* time.sleep(2 ** attempt)
backoff_from_two(attempt) == 2 ^ (attempt + 1)
backoff(attempt) == 2 ^ attempt

\* `for attempt in range(max_retries)`: the next attempt, or past the loop
\* the final `return None`
NextAttempt(c) ==
    IF c.attempt < c.max_retries
    THEN [c EXCEPT !.pc = "attempt"]
    ELSE [c EXCEPT !.pc = "returned", !.result = Null]

call_grok_api(caller, use_live_search, max_retries, waited) ==
    NextAttempt([pc |-> "attempt", caller |-> caller, use_live_search |-> use_live_search,
                 max_retries |-> max_retries, attempt |-> 0, posts |-> 0,
                 waited |-> waited, slept |-> 0, last |-> "none", result |-> Pending,
                 calls |-> 1, requests |-> 0])

\* `return result['choices'][0]['message']['content'].strip()`
ReturnsTextGoesOn(c, text) == [c EXCEPT !.pc = "sleep"]
ReturnsText(c, text) == [c EXCEPT !.pc = "returned", !.result = Str(text)]

\* both except clauses: sleep and continue, or `return None` on the last attempt
Failed(c) ==
    IF c.attempt < c.max_retries - 1
    THEN [c EXCEPT !.pc = "sleep"]
    ELSE [c EXCEPT !.pc = "returned", !.result = Null]

PostBody(c, answer) ==
    LET c1 == [c EXCEPT !.posts = @ + 1, !.requests = @ + 1, !.last = answer,
                        !.waited = IF answer = "timeout"
                                   THEN @ + timeout(c.use_live_search, c.attempt)
                                   ELSE @]
    IN  CASE answer = "ok" -> ReturnsText(c1, "text")
          [] answer = "blank" -> ReturnsText(c1, "")
          [] OTHER -> Failed(c1)

SleepBody(c) ==
    NextAttempt([c EXCEPT !.waited = @ + backoff(c.attempt),
                          !.slept = @ + backoff(c.attempt), !.attempt = @ + 1])

\* `if not result:` in ToolHandler.web_search
FalsyOnlyNone(x) == x = Null
Falsy(x) == x = Null \/ x = Str("")

\* ToolHandler.web_search: the second call_grok_api, on the same dispatch
web_search_fallback(c) ==
    [call_grok_api("web_search_fallback", FALSE, DEFAULT_MAX_RETRIES, c.waited)
        EXCEPT !.calls = c.calls + 1, !.requests = c.requests]

\* ToolHandler.web_search has reached `return result`
WebSearchReturns(c) ==
    /\ c.pc = "returned"
    /\ \/ c.caller = "web_search" /\ ~Falsy(c.result)
       \/ c.caller = "web_search_fallback"

----------------------------------------------------------------------------
(* src/investment-agent/main.py: get_accurate_stock_price and              *)
(* ToolHandler.get_multiple_stock_prices                                   *)

\* what one attempt may meet
\*   "price"       a summary with a price that is not 0
\*   "zero"        a summary whose extracted_price is 0 or missing
\*   "error"       a body with an 'error' member
\*   "no_summary"  a body with neither 'error' nor 'summary'
\*   "raises"      requests.get, raise_for_status, response.json or any
\*                 other statement of the attempt raises
ProviderAnswers == {"price", "zero", "error", "no_summary", "raises"}

PriceRecord(symbol, price) == [t |-> "record", symbol |-> symbol, price |-> price]
Failure(text) == [t |-> "failure", text |-> text]

NoPriceCall ==
    [pc |-> "idle", symbol |-> "", max_retries |-> 0, attempt |-> 0, requests |-> 0,
     last |-> "none", result |-> Pending]

PriceReturns(c, result) == [c EXCEPT !.pc = "returned", !.result = result]

\* `for attempt in range(max_retries)`, and behind it
\* `return f"Failed to fetch price for {symbol}"`
get_accurate_stock_price(symbol, max_retries) ==
    LET c == [NoPriceCall EXCEPT !.pc = "attempt", !.symbol = symbol,
                                 !.max_retries = max_retries]
    IN  IF 0 < max_retries THEN c ELSE PriceReturns(c, Failure("Failed to fetch price"))

\* `if attempt < max_retries - 1: continue`
AttemptsRemainAlways(c) == c.attempt < c.max_retries
AttemptsRemain(c) == c.attempt < c.max_retries - 1

PriceRetry(c) == [c EXCEPT !.attempt = @ + 1]

PriceAttemptBody(c, answer) ==
    LET c1 == [c EXCEPT !.requests = @ + 1, !.last = answer] IN
    CASE answer = "price" -> PriceReturns(c1, PriceRecord(c.symbol, 1))
      [] answer = "zero" ->
            IF AttemptsRemain(c) THEN PriceRetry(c1)
            ELSE PriceReturns(c1, PriceRecord(c.symbol, 0))
      [] answer = "error" ->
            IF AttemptsRemain(c) THEN PriceRetry(c1)
            ELSE PriceReturns(c1, Failure("SerpApi error"))
      [] answer = "no_summary" ->
            IF AttemptsRemain(c) THEN PriceRetry(c1)
            ELSE PriceReturns(c1, Failure("No summary data found"))
      [] OTHER ->
            IF AttemptsRemain(c) THEN PriceRetry(c1)
            ELSE PriceReturns(c1, Failure("Error fetching price"))

\* prices[symbol] = ...: a dict keeps a key where it was first written
PutAtTheEnd(items, key, value) == Append(items, <<key, value>>)
Put(items, key, value) ==
    IF \E n \in 1 .. Len(items) : items[n][1] = key
    THEN [n \in 1 .. Len(items) |->
            IF items[n][1] = key THEN <<key, value>> ELSE items[n]]
    ELSE Append(items, <<key, value>>)

\* f"${price_data['price']:.2f} {price_data['market_info']}", or
\* "Error fetching price"
PriceEntry(price_data) ==
    IF price_data.t = "record"
    THEN [t |-> "price", price |-> price_data.price]
    ELSE [t |-> "error"]

NoPricing ==
    [pc |-> "idle", caller |-> "none", symbols |-> <<>>, k |-> 0, prices |-> <<>>,
     results |-> <<>>, call |-> NoPriceCall]

\* the loop `for symbol in symbols`: the lookup of the next symbol, or
\* `return f"Current stock prices: {prices}"`
NextSymbol(m) ==
    IF m.k < Len(m.symbols)
    THEN [m EXCEPT !.k = @ + 1, !.pc = "lookup",
                   !.call = get_accurate_stock_price(m.symbols[m.k + 1],
                                                     DEFAULT_PRICE_RETRIES)]
    ELSE [m EXCEPT !.pc = "rendered", !.call = NoPriceCall]

get_multiple_stock_prices(symbols) ==
    NextSymbol([NoPricing EXCEPT !.caller = "get_multiple_stock_prices",
                                 !.symbols = symbols])

\* the body of the loop, once the lookup has returned
StoreBody(m) ==
    NextSymbol([m EXCEPT !.prices = Put(@, m.symbols[m.k], PriceEntry(m.call.result)),
                         !.results = Append(@, m.call.result)])

----------------------------------------------------------------------------
(* Two invocations of run_investment_cycle at once on the same spreadsheet. *)
(* Each has its own cash_on_hand and decision; the cash cell and the        *)
(* transaction rows are the spreadsheet's.  Only what touches the ledger is *)
(* kept of a cycle: the read at the start, the funds check, log_transaction *)
(* and update_cell_value.                                                   *)

Cycles == {1, 2}

NoCycles == [cash |-> 0, rows |-> <<>>, cycle |-> <<>>]

\* cash_on_hand = clean_and_convert_to_float(sheets.get_cell_value(CASH_ON_HAND_CELL))
CycleReads(w, c) ==
    [w EXCEPT !.cycle[c].cash_on_hand = w.cash, !.cycle[c].pc = "loop"]

\* final_decision: HOLD returns, a BUY beyond this cycle's cash_on_hand is
\* rejected and the loop goes on, any other trade is committed
CycleDecides(w, c, d) ==
    LET action == Upper(Get(d.parameters, "action", Str("HOLD")).v) IN
    IF ~IsTrade(action)
    THEN [w EXCEPT !.cycle[c].pc = "done"]
    ELSE
    LET q == d.parameters.quantity.v
        p == d.parameters.target_price.v
    IN  IF InsufficientFunds(action, trade_value(q, p), w.cycle[c].cash_on_hand)
        THEN w
        ELSE [w EXCEPT !.cycle[c].pc = "log_transaction",
                       !.cycle[c].trade = [action |-> action, quantity |-> q, price |-> p]]

\* sheets.log_transaction(...)
CycleLogs(w, c) ==
    [w EXCEPT !.rows = Append(@, w.cycle[c].trade), !.cycle[c].pc = "update_cash"]

\* sheets.update_cell_value(CASH_ON_HAND_CELL, new_cash_balance); return
CycleUpdates(w, c) ==
    LET own == w.cycle[c] IN
    [w EXCEPT !.cash = new_cash_balance(own.trade.action, own.cash_on_hand,
                                        trade_value(own.trade.quantity, own.trade.price)),
              !.cycle[c].pc = "done"]

----------------------------------------------------------------------------
(* build_react_prompt and the history as a text.  A text is kept as its    *)
(* runs of equal characters, <<[c |-> "a", n |-> 3999], [c |-> "b", n |-> *)
(* 2]>>, so that texts of thousands of characters are compared and sliced *)
(* exactly; no run is empty and neighbouring runs differ in character.     *)

Run(c, n) == [c |-> c, n |-> n]

RECURSIVE TextLen(_)
TextLen(x) == IF x = <<>> THEN 0 ELSE Head(x).n + TextLen(Tail(x))

\* a + b
Concat(a, b) ==
    IF a = <<>> THEN b
    ELSE IF b = <<>> THEN a
    ELSE IF a[Len(a)].c = b[1].c
    THEN SubSeq(a, 1, Len(a) - 1) \o <<Run(b[1].c, a[Len(a)].n + b[1].n)>> \o Tail(b)
    ELSE a \o b

\* x[-k:] for 0 < k <= len(x)
RECURSIVE LastChars(_, _)
LastChars(x, k) ==
    LET last == x[Len(x)] IN
    IF last.n >= k
    THEN <<Run(last.c, k)>>
    ELSE Concat(LastChars(SubSeq(x, 1, Len(x) - 1), k - last.n), <<last>>)

\* x[:k] for 0 <= k <= len(x)
RECURSIVE FirstChars(_, _)
FirstChars(x, k) ==
    IF k = 0 THEN <<>>
    ELSE IF Head(x).n >= k THEN <<Run(Head(x).c, k)>>
    ELSE Concat(<<Head(x)>>, FirstChars(Tail(x), k - Head(x).n))

ELLIPSIS == <<Run(".", 3)>>

\* if len(history) > N: history = "..." + history[-N:]
\* (the parameter is rebound; the caller's history is another name)
shown_history_at_window(text, N) ==
    IF TextLen(text) >= N
    THEN Concat(ELLIPSIS, LastChars(text, N))
    ELSE text
shown_history(text, N) ==
    IF TextLen(text) > N
    THEN Concat(ELLIPSIS, LastChars(text, N))
    ELSE text

NoPrompting == [N |-> 0, history |-> <<>>, shown |-> <<>>, appends |-> 0, built |-> FALSE]

\* what one `history += ...` may add: a short note, or an observation that
\* fills the window up exactly (after the opening sentence), is as long as
\* the window, or is longer
OPENING == <<Run("c", 30)>>

Pieces(N) ==
    { <<Run("a", 1)>>, <<Run("b", N - TextLen(OPENING))>>, <<Run("b", N)>>,
      <<Run(".", 2), Run("a", N)>> }

----------------------------------------------------------------------------
(* Actions *)

Init ==
    /\ variant \in {"root", "agent"}
    /\ sheets \in BOOLEAN
    /\ pc = "start"
    /\ i = 0
    /\ cash_on_hand = 0
    /\ history = <<>>
    /\ recent_actions = <<>>
    /\ consecutive_errors = 0
    /\ elapsed_time = 0
    /\ ledger_cash \in InitialLedgerCash
    /\ transactions = <<>>
    /\ trade = NoTrade
    /\ outcome = NoOutcome
    /\ event = "none"
    /\ model_calls = 0
    /\ dispatches = 0
    /\ grok = NoCall
    /\ concurrent = NoCycles
    /\ prompting = NoPrompting
    /\ signing = NoSigning
    /\ pricing = NoPricing

\* up to the loop: the handle check and the read of the initial state
StartBodyRetries(s, api_ok) ==
    IF ~sheets
    THEN Return(s, NotInitialized, "not_initialized")
    ELSE IF ~api_ok \/ ~CanConvertToFloat(s.ledger_cash)
    THEN [s EXCEPT !.event = "unreadable"]
    ELSE [s EXCEPT !.cash_on_hand = clean_and_convert_to_float(s.ledger_cash),
                   !.history = <<"started">>, !.pc = "loop", !.event = "started"]

StartBody(s, api_ok) ==
    IF ~sheets
    THEN Return(s, NotInitialized, "not_initialized")
    ELSE IF ~api_ok \/ ~CanConvertToFloat(s.ledger_cash)
    THEN Return(s, InitialStateUnreadable, "unreadable")
    ELSE [s EXCEPT !.cash_on_hand = clean_and_convert_to_float(s.ledger_cash),
                   !.history = <<"started">>, !.pc = "loop", !.event = "started"]

Start ==
    /\ pc = "start"
    /\ \E api_ok \in BOOLEAN : Becomes(StartBody(State, api_ok))

AgentIteration ==
    /\ pc = "loop"
    /\ variant = "agent"
    /\ \E elapsed \in Times, r \in Responses, api_ok \in BOOLEAN :
          /\ elapsed >= elapsed_time
          /\ Becomes(AgentBody(State, elapsed, r, api_ok))

RootIteration ==
    /\ pc = "loop"
    /\ variant = "root"
    /\ \E r \in Responses, api_ok \in BOOLEAN : Becomes(RootBody(State, r, api_ok))

LogTransaction ==
    /\ pc = "log_transaction"
    /\ \E api_ok \in BOOLEAN : Becomes(LogBody(State, api_ok))

UpdateCash ==
    /\ pc = "update_cash"
    /\ \E api_ok \in BOOLEAN : Becomes(UpdateBody(State, api_ok))

Next == Start \/ AgentIteration \/ RootIteration \/ LogTransaction \/ UpdateCash

Spec == Init /\ [][Next]_vars

----------------------------------------------------------------------------
(* One model call or one web_search dispatch on its own: the cycle is held  *)
(* in its loop while the call runs.                                        *)

CycleVars ==
    <<variant, sheets, pc, i, cash_on_hand, history, recent_actions,
      consecutive_errors, elapsed_time, ledger_cash, transactions, trade,
      outcome, event, model_calls, dispatches>>

\* the calls the program makes: the orchestrator's model call and
\* web_search's live-search call use the default max_retries; the function
\* itself takes any
Calls ==
    { call_grok_api("direct", live, m, 0) : live \in BOOLEAN, m \in 0 .. MaxRetries }
    \cup { call_grok_api("run_investment_cycle", FALSE, DEFAULT_MAX_RETRIES, 0),
           call_grok_api("web_search", TRUE, DEFAULT_MAX_RETRIES, 0) }

CallInit ==
    /\ variant = "agent"
    /\ sheets = TRUE
    /\ pc = "loop"
    /\ grok \in Calls
    /\ i \in { k \in 0 .. MAX_REASONING_STEPS - 1 :
                IF grok.caller = "web_search"
                THEN ~ForcesDecision(k, "web_search")
                ELSE k = 0 }
    /\ cash_on_hand = 0
    /\ history = <<"started">>
    /\ recent_actions = <<>>
    /\ consecutive_errors = 0
    /\ elapsed_time = 0
    /\ ledger_cash = Cur(0)
    /\ transactions = <<>>
    /\ trade = NoTrade
    /\ outcome = NoOutcome
    /\ event = "started"
    /\ model_calls = 0
    /\ dispatches = 0
    /\ concurrent = NoCycles
    /\ prompting = NoPrompting
    /\ signing = NoSigning
    /\ pricing = NoPricing

Post ==
    /\ grok.pc = "attempt"
    /\ \E answer \in HttpAnswers : grok' = PostBody(grok, answer)
    /\ UNCHANGED <<CycleVars, concurrent, prompting, signing, pricing>>

Sleep ==
    /\ grok.pc = "sleep"
    /\ grok' = SleepBody(grok)
    /\ UNCHANGED <<CycleVars, concurrent, prompting, signing, pricing>>

\* web_search: the live search answered nothing, so the prompt is sent again
\* without live search
WebSearchFallback ==
    /\ grok.pc = "returned"
    /\ grok.caller = "web_search"
    /\ Falsy(grok.result)
    /\ grok' = web_search_fallback(grok)
    /\ UNCHANGED <<CycleVars, concurrent, prompting, signing, pricing>>

\* observation = tool_handlers['web_search'](parameters), and the end of
\* the loop body
WebSearchObserved ==
    /\ pc = "loop"
    /\ dispatches = 0
    /\ WebSearchReturns(grok)
    /\ CycleBecomes(AgentTool(State, Decision("web_search", [query |-> Str("market news")]),
                              TRUE))
    /\ UNCHANGED <<variant, sheets, grok, concurrent, prompting, signing, pricing>>

CallNext == Post \/ Sleep \/ WebSearchFallback \/ WebSearchObserved

SpecCall == CallInit /\ [][CallNext]_vars

----------------------------------------------------------------------------
(* Two concurrent cycles: any interleaving of their ledger operations *)

TwoDecisions ==
    TradeDecisions \cup {Decision(FINAL_DECISION, [action |-> Str("HOLD"), quantity |-> Num(0)])}

TwoInit ==
    /\ variant = "agent"
    /\ sheets = TRUE
    /\ pc = "start"
    /\ i = 0
    /\ cash_on_hand = 0
    /\ history = <<>>
    /\ recent_actions = <<>>
    /\ consecutive_errors = 0
    /\ elapsed_time = 0
    /\ ledger_cash = Cur(MaxCash)
    /\ transactions = <<>>
    /\ trade = NoTrade
    /\ outcome = NoOutcome
    /\ event = "none"
    /\ model_calls = 0
    /\ dispatches = 0
    /\ grok = NoCall
    /\ concurrent =
          [cash |-> MaxCash, rows |-> <<>>,
           cycle |-> [c \in Cycles |-> [pc |-> "start", cash_on_hand |-> 0, trade |-> NoTrade]]]
    /\ prompting = NoPrompting
    /\ signing = NoSigning
    /\ pricing = NoPricing

TwoRead ==
    /\ \E c \in Cycles :
          /\ concurrent.cycle[c].pc = "start"
          /\ concurrent' = CycleReads(concurrent, c)
    /\ UNCHANGED <<CycleVars, grok, prompting, signing, pricing>>

TwoDecide ==
    /\ \E c \in Cycles, d \in TwoDecisions :
          /\ concurrent.cycle[c].pc = "loop"
          /\ concurrent' = CycleDecides(concurrent, c, d)
    /\ UNCHANGED <<CycleVars, grok, prompting, signing, pricing>>

TwoLog ==
    /\ \E c \in Cycles :
          /\ concurrent.cycle[c].pc = "log_transaction"
          /\ concurrent' = CycleLogs(concurrent, c)
    /\ UNCHANGED <<CycleVars, grok, prompting, signing, pricing>>

TwoUpdate ==
    /\ \E c \in Cycles :
          /\ concurrent.cycle[c].pc = "update_cash"
          /\ concurrent' = CycleUpdates(concurrent, c)
    /\ UNCHANGED <<CycleVars, grok, prompting, signing, pricing>>

TwoNext == TwoRead \/ TwoDecide \/ TwoLog \/ TwoUpdate

SpecTwo == TwoInit /\ [][TwoNext]_vars

----------------------------------------------------------------------------
(* The history and the prompts of one cycle: the history starts with the   *)
(* opening sentence, every iteration builds a prompt from it and may       *)
(* append to it.                                                           *)

PromptInit ==
    /\ variant \in {"root", "agent"}
    /\ sheets = TRUE
    /\ pc = "loop"
    /\ i = 0
    /\ cash_on_hand = 0
    /\ history = <<"started">>
    /\ recent_actions = <<>>
    /\ consecutive_errors = 0
    /\ elapsed_time = 0
    /\ ledger_cash = Cur(0)
    /\ transactions = <<>>
    /\ trade = NoTrade
    /\ outcome = NoOutcome
    /\ event = "started"
    /\ model_calls = 0
    /\ dispatches = 0
    /\ grok = NoCall
    /\ concurrent = NoCycles
    /\ prompting =
          [N |-> IF variant = "agent" THEN HISTORY_WINDOW ELSE ROOT_HISTORY_WINDOW,
           history |-> OPENING, shown |-> <<>>, appends |-> 0, built |-> FALSE]
    /\ signing = NoSigning
    /\ pricing = NoPricing

\* prompt = build_react_prompt(objective, history)
BuildPrompt ==
    /\ prompting' = [prompting EXCEPT !.shown = shown_history(prompting.history, prompting.N),
                                      !.built = TRUE]
    /\ UNCHANGED <<CycleVars, grok, concurrent, signing, pricing>>

\* history += f"\n..."
AppendToHistory ==
    /\ prompting.appends < MaxAppends
    /\ \E piece \in Pieces(prompting.N) :
          prompting' = [prompting EXCEPT !.history = Concat(@, piece),
                                         !.appends = @ + 1, !.built = FALSE]
    /\ UNCHANGED <<CycleVars, grok, concurrent, signing, pricing>>

PromptNext == BuildPrompt \/ AppendToHistory

SpecPrompt == PromptInit /\ [][PromptNext]_vars

----------------------------------------------------------------------------
(* src/main.py: the loop as far as recent_actions is concerned.  `chosen`
   lists, oldest first, what every iteration that got as far as the
   signature chose; what the iteration does after the repetition check is
   left open (it goes on to the next step or ends the cycle). *)

SignInit ==
    /\ variant = "root"
    /\ sheets = TRUE
    /\ pc = "idle"
    /\ i = 0
    /\ cash_on_hand = Cur(0)
    /\ history = <<>>
    /\ recent_actions = <<>>
    /\ consecutive_errors = 0
    /\ elapsed_time = 0
    /\ ledger_cash = Cur(0)
    /\ transactions = <<>>
    /\ trade = NoTrade
    /\ outcome = NoOutcome
    /\ event = "started"
    /\ model_calls = 0
    /\ dispatches = 0
    /\ grok = NoCall
    /\ concurrent = NoCycles
    /\ prompting = NoPrompting
    /\ signing = [NoSigning EXCEPT !.pc = "loop"]
    /\ pricing = NoPricing

SignNextStep(s) ==
    IF s.i + 1 < ROOT_MAX_REASONING_STEPS
    THEN [s EXCEPT !.i = @ + 1]
    ELSE [s EXCEPT !.pc = "done"]

\* except Exception: history += ...; continue
SignRaised ==
    /\ signing.pc = "loop"
    /\ Raised \in Choices(signing.i)
    /\ signing' = SignNextStep([signing EXCEPT !.event = "api_error"])
    /\ UNCHANGED <<CycleVars, grok, concurrent, prompting, pricing>>

\* if not tool_name: break
SignDeclined ==
    /\ signing.pc = "loop"
    /\ \E c \in Choices(signing.i) :
          /\ ~c.raised
          /\ c.tool_name = NoTool
          /\ signing' = [signing EXCEPT !.pc = "done", !.event = "declined"]
    /\ UNCHANGED <<CycleVars, grok, concurrent, prompting, pricing>>

\* recent_actions.append(action_signature), pop(0) beyond three, and the
\* repetition check
SignRecorded ==
    /\ signing.pc = "loop"
    /\ \E c \in Choices(signing.i), ends \in BOOLEAN :
          /\ ~c.raised
          /\ c.tool_name # NoTool
          /\ LET s1 == [signing EXCEPT
                          !.recent_actions =
                              Remember(@, signature_text(c.tool_name, c.items)),
                          !.chosen = Append(@, c)]
             IN  signing' =
                   IF LoopDetected(s1.recent_actions)
                   THEN SignNextStep([s1 EXCEPT !.event = "loop_detected"])
                   ELSE IF ends
                   THEN [s1 EXCEPT !.pc = "done", !.event = "executed"]
                   ELSE SignNextStep([s1 EXCEPT !.event = "executed"])
    /\ UNCHANGED <<CycleVars, grok, concurrent, prompting, pricing>>

SignNext == SignRaised \/ SignDeclined \/ SignRecorded

SpecSign == SignInit /\ [][SignNext]_vars

----------------------------------------------------------------------------
(* One price lookup, or one get_multiple_stock_prices dispatch, on its own *)

Symbols == {"AAPL", "MSFT"}

SymbolLists == UNION { [1 .. n -> Symbols] : n \in 0 .. MaxSymbols }

PriceCalls ==
    { [NoPricing EXCEPT !.caller = "direct", !.pc = "lookup",
                        !.call = get_accurate_stock_price("AAPL", m)] :
        m \in 0 .. MaxRetries }
    \cup { get_multiple_stock_prices(symbols) : symbols \in SymbolLists }

PriceInit ==
    /\ variant = "agent"
    /\ sheets = TRUE
    /\ pc = "loop"
    /\ i = 0
    /\ cash_on_hand = 0
    /\ history = <<"started">>
    /\ recent_actions = <<>>
    /\ consecutive_errors = 0
    /\ elapsed_time = 0
    /\ ledger_cash = Cur(0)
    /\ transactions = <<>>
    /\ trade = NoTrade
    /\ outcome = NoOutcome
    /\ event = "started"
    /\ model_calls = 0
    /\ dispatches = 0
    /\ grok = NoCall
    /\ concurrent = NoCycles
    /\ prompting = NoPrompting
    /\ signing = NoSigning
    /\ pricing \in PriceCalls

\* one pass through the body of `for attempt in range(max_retries)`
PriceAttempt ==
    /\ pricing.call.pc = "attempt"
    /\ \E answer \in ProviderAnswers :
          pricing' = [pricing EXCEPT !.call = PriceAttemptBody(@, answer)]
    /\ UNCHANGED <<CycleVars, grok, concurrent, prompting, signing>>

\* one pass through the body of `for symbol in symbols`
PriceStored ==
    /\ pricing.caller = "get_multiple_stock_prices"
    /\ pricing.pc = "lookup"
    /\ pricing.call.pc = "returned"
    /\ pricing' = StoreBody(pricing)
    /\ UNCHANGED <<CycleVars, grok, concurrent, prompting, signing>>

PriceNext == PriceAttempt \/ PriceStored

SpecPrice == PriceInit /\ [][PriceNext]_vars

----------------------------------------------------------------------------
(* Vocabulary of the properties *)

Value(t) == t.quantity * t.price

Accepted(t) == t # NoTrade

IsBuyOrSell(t) == t.action \in {"BUY", "SELL"}

CashAfter(t, cash) ==
    IF t.action = "BUY" THEN cash - Value(t) ELSE cash + Value(t)

Committing == pc \in {"log_transaction", "update_cash"}

LastThreeIdentical(recent) ==
    Len(recent) = 3 /\ recent[1] = recent[2] /\ recent[2] = recent[3]

EmergencyHolds == {TimeoutHold, ApiErrorsHold, ParsingErrorsHold}

HoldOutcomes == EmergencyHolds \cup {ForcedHold, Completed}

FailureEvents == {"empty_response", "parse_error"}

ParsedEvents ==
    {"declined", "forced_hold", "hold", "commit", "insufficient_funds", "tool",
     "tool_error", "unknown_tool", "bad_action", "bad_number"}

----------------------------------------------------------------------------
\* C1: in both variants a final_decision BUY whose quantity x target_price
\* exceeds cash_on_hand is never committed: every BUY that is accepted or
\* logged is worth at most cash_on_hand, and the iteration that rejects a
\* BUY appends no transaction, leaves the ledger cash cell alone, leaves the
\* in-memory cash_on_hand alone and does not enter the commit.
C1_AcceptedBuysAreFunded ==
    /\ (trade.action = "BUY" => Value(trade) <= cash_on_hand)
    /\ \A k \in 1 .. Len(transactions) :
          transactions[k].action = "BUY" => Value(transactions[k]) <= cash_on_hand

C1_RejectionTouchesNothing ==
    (pc = "loop" /\ event' = "insufficient_funds")
        => /\ transactions' = transactions
           /\ ledger_cash' = ledger_cash
           /\ cash_on_hand' = cash_on_hand
           /\ trade' = trade
           /\ ~Committing'

C1_InsufficientBuyNeverCommitted ==
    [] C1_AcceptedBuysAreFunded /\ [][C1_RejectionTouchesNothing]_vars

C1_Witness ==
    /\ event = "insufficient_funds"
    /\ pc = "loop"
    /\ cash_on_hand = MaxCash
    /\ ledger_cash = Cur(MaxCash)
    /\ transactions = <<>>

\* C2: a committed BUY (SELL) writes cash_on_hand as read at the start of the
\* cycle minus (plus) quantity x price to the ledger cash cell, and the cycle
\* has then appended exactly one transaction record, the trade's.
C2_CashIsTheStartCash ==
    /\ (pc = "start" /\ pc' = "loop" => cash_on_hand' = ledger_cash.v)
    /\ (pc # "start" => cash_on_hand' = cash_on_hand)

C2_WriteIsStartCashLessValue ==
    (pc = "update_cash" /\ pc' = "done" /\ outcome' = Completed)
        => /\ IsBuyOrSell(trade)
           /\ ledger_cash' = Num(CashAfter(trade, cash_on_hand))
           /\ transactions' = <<trade>>

C2_CommittedCashAndOneRecord ==
    [][C2_CashIsTheStartCash /\ C2_WriteIsStartCashLessValue]_vars

C2_Witness ==
    /\ outcome = Completed
    /\ trade.action = "SELL"
    /\ Value(trade) > 0
    /\ ledger_cash = Num(cash_on_hand + Value(trade))
    /\ transactions = <<trade>>

\* C3: at most one decision is committed per cycle: once a final decision is
\* accepted the cycle only finishes that commit and returns; no model call,
\* no dispatch, no further step of the loop follows, at most one record is
\* ever appended, and nothing at all happens after the return.
C3_AcceptedEndsTheLoop ==
    /\ Len(transactions) <= 1
    /\ (Accepted(trade) => pc \in {"log_transaction", "update_cash", "done"})
    /\ (Len(transactions) = 1 => pc \in {"update_cash", "done"})

C3_NothingAfterAccepting ==
    /\ (Accepted(trade) =>
          /\ model_calls' = model_calls
          /\ dispatches' = dispatches
          /\ i' = i
          /\ trade' = trade
          /\ history' = history)
    /\ (pc = "update_cash" => transactions' = transactions)
    /\ (pc = "done" => UNCHANGED vars)

C3_OneDecisionPerCycle ==
    [] C3_AcceptedEndsTheLoop /\ [][C3_NothingAfterAccepting]_vars

C3_Witness ==
    /\ outcome = Completed
    /\ Len(transactions) = 1
    /\ model_calls >= 2
    /\ i + 1 < ROOT_MAX_REASONING_STEPS

C4_RepeatIsSkipped ==
    (variant = "root" /\ pc = "loop" /\ LastThreeIdentical(recent_actions'))
        => /\ dispatches' = dispatches
           /\ transactions' = transactions
           /\ ledger_cash' = ledger_cash
           /\ trade' = trade
           /\ ~Committing'
           /\ outcome' \in {NoOutcome, MaxStepsEnded}
           /\ (event' = "loop_detected" =>
                 /\ history' = Append(history, "loop_detected")
                 /\ i' = i + 1
                 /\ (pc' = "loop" <=> i + 1 < ROOT_MAX_REASONING_STEPS))

TimeoutReturn ==
    /\ pc' = "done"
    /\ outcome' = TimeoutHold
    /\ model_calls' = model_calls
    /\ dispatches' = dispatches
    /\ transactions' = transactions
    /\ ledger_cash' = ledger_cash
    /\ history' = history
    /\ i' = i

C5_DeadlineAtCeiling ==
    [][(variant = "agent" /\ pc = "loop" /\ elapsed_time' >= MAX_FUNCTION_RUNTIME)
          => TimeoutReturn]_vars

\* C5 (amended): in src/investment-agent/main.py an iteration that starts
\* with elapsed time > MAX_FUNCTION_RUNTIME (strictly) returns the emergency
\* HOLD at once, whatever the step index: no model call, no dispatch, no
\* ledger write; at exactly MAX_FUNCTION_RUNTIME the iteration still runs.
C5_DeadlineBeyondCeiling ==
    [][(variant = "agent" /\ pc = "loop" /\ elapsed_time' > MAX_FUNCTION_RUNTIME)
          => TimeoutReturn]_vars

C5_Witness ==
    /\ outcome = TimeoutHold
    /\ elapsed_time > MAX_FUNCTION_RUNTIME
    /\ i >= 1
    /\ model_calls = i

\* C6: in src/investment-agent/main.py a cycle whose step index reaches
\* MAX_REASONING_STEPS returns the forced HOLD, never the unclassified
\* "Cycle ended due to max steps.".
C6_StepsExhaustedForcesHold ==
    (variant = "agent" /\ i = MAX_REASONING_STEPS) => outcome = ForcedHold

\* C7: on a committed BUY or SELL the transaction record is appended before
\* the cash cell is updated and the success outcome is returned only after
\* both; when the cash update fails after the record was appended the cycle
\* does not return success: the exception leaves run_investment_cycle
\* (status 500) with the record logged and the cash cell not updated.
C7_SuccessOnlyAfterBoth ==
    /\ (pc = "update_cash" => transactions = <<trade>>)
    /\ (outcome = Completed /\ IsBuyOrSell(trade) =>
          /\ transactions = <<trade>>
          /\ ledger_cash = Num(CashAfter(trade, cash_on_hand)))
    /\ (outcome.status = 200 /\ Len(transactions) = 1 =>
          ledger_cash = Num(CashAfter(trade, cash_on_hand)))

C7_AppendThenUpdate ==
    /\ (Len(transactions') > Len(transactions) =>
          /\ pc = "log_transaction"
          /\ pc' = "update_cash"
          /\ ledger_cash' = ledger_cash
          /\ outcome' = NoOutcome)
    /\ (pc = "update_cash" =>
          \/ (outcome' = Completed /\ ledger_cash' = Num(CashAfter(trade, cash_on_hand)))
          \/ (outcome' = Unhandled /\ ledger_cash' = ledger_cash
                /\ transactions' = transactions))

C7_CommitOrderAndFailedUpdate ==
    [] C7_SuccessOnlyAfterBoth /\ [][C7_AppendThenUpdate]_vars

C7_Witness ==
    /\ event = "update_failed"
    /\ outcome = Unhandled
    /\ transactions = <<trade>>
    /\ ledger_cash # Num(CashAfter(trade, cash_on_hand))

\* C8 (as stated): every cycle that returns the success outcome, a HOLD
\* final_decision included, has appended a transaction record.
C8_EveryCommitLogs == outcome = Completed => Len(transactions) >= 1

\* C8 (amended): a cycle that returns the success outcome for a BUY or a SELL
\* has appended that trade's record, exactly once, before returning; a cycle
\* that returns it for a HOLD (or any other word) has appended no record and
\* has not written the cash cell in the deciding iteration.
C8_TradeLogsHoldDoesNot ==
    outcome = Completed =>
        /\ Accepted(trade)
        /\ IF IsBuyOrSell(trade)
           THEN transactions = <<trade>> /\ event = "committed"
           ELSE transactions = <<>> /\ event = "hold"

C8_HoldWritesNothing ==
    (pc = "loop" /\ event' = "hold") =>
        /\ transactions' = transactions
        /\ ledger_cash' = ledger_cash
        /\ outcome' = Completed

C8_CommitLogsOnlyTrades ==
    [] C8_TradeLogsHoldDoesNot /\ [][C8_HoldWritesNothing]_vars

C8_Witness ==
    /\ outcome = Completed
    /\ trade.action = "HOLD"
    /\ transactions = <<>>
    /\ event = "hold"

\* C9 (the streak's arithmetic, shared by both statements): in
\* src/investment-agent/main.py consecutive_errors lies in 0..3; an empty
\* response or a parse failure adds one, a parsed decision resets it to
\* zero whatever the dispatch then does, and no other step changes it; at 3
\* the cycle has returned an emergency HOLD in that iteration.
C9_StreakInRange ==
    /\ consecutive_errors \in 0 .. 3
    /\ (variant = "agent" /\ consecutive_errors = 3 =>
          pc = "done" /\ outcome \in {ApiErrorsHold, ParsingErrorsHold})

C9_StreakSteps ==
    /\ (pc = "loop" /\ variant = "agent" /\ model_calls' = model_calls + 1 =>
          /\ event' \in FailureEvents \cup ParsedEvents
          /\ (event' \in FailureEvents => consecutive_errors' = consecutive_errors + 1)
          /\ (event' \in ParsedEvents => consecutive_errors' = 0)
          /\ (event' = "empty_response" /\ consecutive_errors' = 3 =>
                outcome' = ApiErrorsHold)
          /\ (event' = "parse_error" /\ consecutive_errors' = 3 =>
                outcome' = ParsingErrorsHold))
    /\ (~(pc = "loop" /\ variant = "agent" /\ model_calls' = model_calls + 1) =>
          consecutive_errors' = consecutive_errors)

\* C9 (as stated): ... and a failure that leaves the streak below 3 lets the
\* loop re-enter REASONING.
C9_LowerStreakReenters ==
    (pc = "loop" /\ variant = "agent" /\ event' \in FailureEvents
        /\ model_calls' = model_calls + 1 /\ consecutive_errors' < 3)
        => pc' = "loop"

C9_StreakReentersReasoning ==
    [] C9_StreakInRange /\ [][C9_StreakSteps /\ C9_LowerStreakReenters]_vars

\* C9 (amended): ... and a failure that leaves the streak below 3 only uses
\* up the step: the loop re-enters REASONING when a step remains, and after
\* the last step the cycle ends with the max-steps outcome, not an emergency
\* HOLD.
C9_LowerStreakContinues ==
    (pc = "loop" /\ variant = "agent" /\ event' \in FailureEvents
        /\ model_calls' = model_calls + 1 /\ consecutive_errors' < 3)
        => /\ i' = i + 1
           /\ IF i + 1 < MAX_REASONING_STEPS
              THEN pc' = "loop" /\ outcome' = NoOutcome
              ELSE pc' = "done" /\ outcome' = MaxStepsEnded

C9_StreakUsesUpTheStep ==
    [] C9_StreakInRange /\ [][C9_StreakSteps /\ C9_LowerStreakContinues]_vars

C9_Witness ==
    /\ variant = "agent"
    /\ consecutive_errors = 3
    /\ outcome = ParsingErrorsHold
    /\ model_calls >= 4
    /\ Len(history) >= 3

\* C10 (as stated): in every iteration each of the three guards is evaluated
\* and any one of them tripping ends the cycle with a HOLD-equivalent
\* outcome, whatever the other two say.
AGuardTrips ==
    \/ LastThreeIdentical(recent_actions') /\ event' = "loop_detected"
    \/ elapsed_time' > MAX_FUNCTION_RUNTIME
    \/ consecutive_errors' >= 3

C10_AgentGuards ==
    (pc = "loop" /\ variant = "agent") =>
        /\ (elapsed_time' > MAX_FUNCTION_RUNTIME =>
              pc' = "done" /\ outcome' = TimeoutHold
                /\ consecutive_errors' = consecutive_errors)
        /\ (consecutive_errors' >= 3 =>
              pc' = "done" /\ outcome' \in {ApiErrorsHold, ParsingErrorsHold}
                /\ elapsed_time' <= MAX_FUNCTION_RUNTIME)
        /\ (outcome' \in EmergencyHolds =>
              elapsed_time' > MAX_FUNCTION_RUNTIME \/ consecutive_errors' >= 3)
        /\ recent_actions' = <<>>

C10_RootGuard ==
    (pc = "loop" /\ variant = "root") =>
        /\ outcome' \notin EmergencyHolds \cup {ForcedHold}
        /\ elapsed_time' = 0
        /\ consecutive_errors' = 0
        /\ (event' = "loop_detected" =>
              LastThreeIdentical(recent_actions') /\ outcome' \in {NoOutcome, MaxStepsEnded})

C11_FailedInitReturns ==
    pc = "start" =>
        /\ pc' \in {"loop", "done"}
        /\ (~sheets => pc' = "done" /\ outcome' = NotInitialized)
        /\ (sheets /\ ledger_cash.t = "str" =>
              pc' = "done" /\ outcome' = InitialStateUnreadable)
        /\ (pc' = "loop" => sheets /\ ledger_cash.t = "cur")
        /\ (pc' = "done" =>
              /\ outcome' \in {NotInitialized, InitialStateUnreadable}
              /\ outcome'.status = 500
              /\ model_calls' = 0
              /\ dispatches' = 0
              /\ transactions' = <<>>
              /\ ledger_cash' = ledger_cash
              /\ history' = <<>>)

C11_NothingBeforeTheLoop ==
    (pc = "start" \/ outcome \in {NotInitialized, InitialStateUnreadable}) =>
        /\ model_calls = 0
        /\ dispatches = 0
        /\ transactions = <<>>
        /\ i = 0

C11_InitFailureIsFatal ==
    [] C11_NothingBeforeTheLoop /\ [][C11_FailedInitReturns]_vars

C11_Witness ==
    /\ outcome = InitialStateUnreadable
    /\ sheets
    /\ ledger_cash = Cur(MaxCash)
    /\ model_calls = 0
    /\ dispatches = 0

\* C12: every cycle that passes the initial reads ends by returning status
\* 200, and status 500 is answered only for a missing handle or an
\* unreadable initial state.
C12_OnlyInitAnswers500 ==
    /\ (outcome.status = 500 => outcome \in {NotInitialized, InitialStateUnreadable})
    /\ (pc = "done" /\ history # <<>> => outcome.status = 200)

\* C13 (as stated): a rejected (insufficient funds) BUY never ends the cycle:
\* the observation is appended, the loop continues and the model is called
\* again.
StepBudget == IF variant = "agent" THEN MAX_REASONING_STEPS ELSE ROOT_MAX_REASONING_STEPS

Rejecting == pc = "loop" /\ event' = "insufficient_funds"

C13_RejectionKeepsLooping ==
    Rejecting => pc' = "loop" /\ history' = Append(history, "insufficient_funds")

C13_ModelCalledAgain ==
    (pc = "loop" /\ event = "insufficient_funds") => model_calls' = model_calls + 1

C13_RejectedBuyNeverEndsCycle ==
    [][C13_RejectionKeepsLooping /\ C13_ModelCalledAgain]_vars

\* C13 (amended): the rejection of a BUY returns no HOLD, success or error
\* outcome itself: it appends the INSUFFICIENT FUNDS observation to the
\* history and uses up the step.  While a step remains the loop goes on with
\* that observation last in the history, and the next iteration calls the
\* model again unless (src/investment-agent/main.py) the deadline has passed
\* by then; a rejection on the last step ends the cycle with the max-steps
\* outcome.
C13_RejectionUsesUpTheStep ==
    Rejecting =>
        /\ history' = Append(history, "insufficient_funds")
        /\ i' = i + 1
        /\ IF i + 1 < StepBudget
           THEN pc' = "loop" /\ outcome' = NoOutcome
           ELSE pc' = "done" /\ outcome' = MaxStepsEnded

C13_NextIterationSeesIt ==
    (pc = "loop" /\ event = "insufficient_funds") =>
        /\ history[Len(history)] = "insufficient_funds"
        /\ \/ model_calls' = model_calls + 1
           \/ variant = "agent" /\ outcome' = TimeoutHold /\ model_calls' = model_calls

C13_RejectedBuyIsFedBack ==
    [][C13_RejectionUsesUpTheStep /\ C13_NextIterationSeesIt]_vars

C13_Witness ==
    /\ \E k \in 1 .. Len(history) : history[k] = "insufficient_funds"
    /\ outcome = Completed
    /\ trade.action = "BUY"
    /\ Value(trade) > 0
    /\ transactions = <<trade>>

\* The outcome of one pass through the loop body from the current state, as a
\* function of what the environment answers.  The history keeps one piece
\* per appended text; `event` tells which text it was ("unknown_tool" is
\* the branch `observation = f"Unknown tool '{tool_name}'."`).
Registry == IF variant = "agent" THEN AgentTools ELSE RootTools

UnknownToolDecisions ==
    { d \in Decisions : d.tool_name \notin Registry \cup {FINAL_DECISION, NoTool} }

Answer(d) == [kind |-> "json", decision |-> d]

ClockNow == { e \in Times : e >= elapsed_time /\ e <= MAX_FUNCTION_RUNTIME }

PassOn(r, elapsed, api_ok) ==
    IF variant = "agent"
    THEN AgentBody(State, elapsed, r, api_ok)
    ELSE RootBody(State, r, api_ok)

ThirdInARow(d) ==
    /\ Len(recent_actions) >= 2
    /\ recent_actions[Len(recent_actions)] = <<d.tool_name, d.parameters>>
    /\ recent_actions[Len(recent_actions) - 1] = <<d.tool_name, d.parameters>>

\* C14 (as stated): a decision naming a tool that is neither registered nor
\* final_decision always gets the "Unknown tool" observation appended to the
\* history, with no executor invoked, the ledger untouched and the error
\* streak not incremented, and the loop proceeds to the next iteration.
C14_UnknownToolAlwaysObserved ==
    pc = "loop" =>
        \A d \in UnknownToolDecisions, e \in ClockNow, api_ok \in BOOLEAN :
            LET n == PassOn(Answer(d), e, api_ok) IN
            /\ n.event = "unknown_tool"
            /\ n.history = Append(history, "observation")
            /\ n.dispatches = dispatches
            /\ n.ledger_cash = ledger_cash
            /\ n.transactions = transactions
            /\ n.consecutive_errors <= consecutive_errors
            /\ n.i = i + 1
            /\ n.pc = "loop"

\* C14 (amended): a decision naming a tool that is neither registered nor
\* final_decision never invokes an executor, never touches the ledger and
\* never increments the error streak.  When it reaches the registry lookup
\* it gets the "Unknown tool" observation appended to the history and uses
\* up the step (the loop goes on while a step remains, else the cycle ends
\* with the max-steps outcome).  It does not reach the lookup in
\* src/investment-agent/main.py at step index 5, where the forced HOLD is
\* returned with no observation, and in src/main.py when it is the third
\* identical action in a row, where the loop-detected observation is
\* appended instead.
C14_UnknownToolObservedAtLookup ==
    pc = "loop" =>
        \A d \in UnknownToolDecisions, e \in ClockNow, api_ok \in BOOLEAN :
            LET n == PassOn(Answer(d), e, api_ok) IN
            /\ n.dispatches = dispatches
            /\ n.ledger_cash = ledger_cash
            /\ n.transactions = transactions
            /\ n.trade = trade
            /\ n.consecutive_errors = 0
            /\ IF variant = "agent" /\ i >= 5
               THEN n.pc = "done" /\ n.outcome = ForcedHold /\ n.history = history
               ELSE /\ n.i = i + 1
                    /\ IF i + 1 < StepBudget
                       THEN n.pc = "loop" /\ n.outcome = NoOutcome
                       ELSE n.pc = "done" /\ n.outcome = MaxStepsEnded
                    /\ IF variant = "root" /\ ThirdInARow(d)
                       THEN n.event = "loop_detected"
                            /\ n.history = Append(history, "loop_detected")
                       ELSE n.event = "unknown_tool"
                            /\ n.history = Append(history, "observation")

C14_Witness ==
    /\ event = "unknown_tool"
    /\ pc = "loop"
    /\ dispatches = 0
    /\ history = <<"started", "observation">>
    /\ consecutive_errors = 0

\* C15: whatever tool name and parameters the model chooses (final_decision
\* with a missing, null or non-numeric action, quantity or target_price
\* included), and with the spreadsheet API answering, the pass through the
\* loop body ends in an observation or a returned outcome: no exception
\* leaves run_investment_cycle.
C15_NoExceptionEscapesDispatch ==
    pc = "loop" =>
        \A d \in Decisions, e \in ClockNow :
            PassOn(Answer(d), e, TRUE).outcome # Unhandled

\* C16: call_grok_api(prompt, use_live_search, max_retries) of
\* src/investment-agent/main.py sends at most max_retries requests, stops at
\* the first one that is answered with a message (returning its text), and
\* otherwise returns None after the last failed attempt; it never raises,
\* whatever mix of timeouts, transport errors and malformed bodies it gets,
\* and every step brings it closer to its return.
Answered == {"ok", "blank"}

C16_AttemptsAndResult ==
    /\ grok.pc \in {"attempt", "sleep", "returned"}
    /\ grok.posts <= grok.max_retries
    /\ (grok.pc \in {"attempt", "sleep"} =>
          /\ grok.attempt < grok.max_retries
          /\ grok.posts = grok.attempt + (IF grok.pc = "sleep" THEN 1 ELSE 0)
          /\ grok.last \notin Answered
          /\ grok.result = Pending)
    /\ (grok.pc = "returned" =>
          /\ grok.result \in {Str("text"), Str(""), Null}
          /\ (grok.result = Null =>
                grok.posts = grok.max_retries /\ grok.last \notin Answered)
          /\ (grok.result # Null =>
                grok.last \in Answered /\ grok.posts = grok.attempt + 1))

StepsLeft(c) ==
    IF c.pc = "returned"
    THEN 0
    ELSE 2 * (c.max_retries - c.attempt) - (IF c.pc = "sleep" THEN 1 ELSE 0)

C16_EveryStepAdvances ==
    grok.pc \in {"attempt", "sleep"} =>
        /\ StepsLeft(grok') < StepsLeft(grok)
        /\ StepsLeft(grok') >= 0
        /\ grok'.caller = grok.caller
        /\ grok'.max_retries = grok.max_retries

C16_CallAlwaysReturns ==
    [] C16_AttemptsAndResult /\ [][C16_EveryStepAdvances]_vars

C16_Witness ==
    /\ grok.caller = "direct"
    /\ grok.pc = "returned"
    /\ grok.result = Null
    /\ grok.max_retries = 3
    /\ grok.posts = 3
    /\ grok.last = "malformed"
    /\ grok.waited = PLAIN_TIMEOUT + 1 + 2

\* C17: the seconds spent in timeouts and backoff sleeps within one model
\* call or one tool dispatch (web_search's live-search call and its
\* fallback call together) never exceed MAX_FUNCTION_RUNTIME.
C17_RetriesWithinDeadline ==
    grok.max_retries <= DEFAULT_MAX_RETRIES => grok.waited <= MAX_FUNCTION_RUNTIME

\* C18: when the decoded decision has no action object or no tool_name (a
\* JSON object without "action", or whose action has no, a null or an empty
\* tool_name), the cycle ends in that very iteration: nothing is dispatched,
\* no transaction is appended, the ledger is not written, the history gets
\* nothing, and no model call follows the one that produced the decision.
DecodedKinds == IF variant = "agent" THEN {"json", "embedded"} ELSE {"json"}

C18_DeclinedEndsTheCycle ==
    /\ pc = "loop" =>
          \A k \in DecodedKinds, e \in ClockNow, api_ok \in BOOLEAN :
              LET n == PassOn([kind |-> k, decision |-> NoDecision], e, api_ok) IN
              /\ n.pc = "done"
              /\ n.event = "declined"
              /\ n.outcome = MaxStepsEnded
              /\ n.model_calls = model_calls + 1
              /\ n.dispatches = dispatches
              /\ n.transactions = transactions
              /\ n.ledger_cash = ledger_cash
              /\ n.trade = trade
              /\ n.history = history
              /\ n.recent_actions = recent_actions
    /\ event = "declined" => pc = "done" /\ outcome.status = 200
    /\ pc = "done" => ~ENABLED Next

C18_Witness ==
    /\ event = "declined"
    /\ pc = "done"
    /\ outcome = MaxStepsEnded
    /\ i = 1
    /\ model_calls = 2
    /\ dispatches = 1
    /\ transactions = <<>>

\* C19: a final_decision SELL (numeric quantity and target_price) is accepted
\* whatever the cash_on_hand and whatever is held: no funds check and no
\* holdings check stands before the commit, which appends one transaction
\* record, sets the cash cell to cash_on_hand + quantity x price and returns
\* the success outcome.
SellDecisions == { d \in TradeDecisions : d.parameters.action = Str("SELL") }

C19_SellIsAccepted ==
    pc = "loop" =>
        \A d \in SellDecisions, e \in ClockNow, api_ok \in BOOLEAN :
            LET n == PassOn(Answer(d), e, api_ok) IN
            /\ n.pc = "log_transaction"
            /\ n.trade = [action |-> "SELL", quantity |-> d.parameters.quantity.v,
                          price |-> d.parameters.target_price.v]
            /\ n.outcome = NoOutcome
            /\ n.history = history
            /\ n.cash_on_hand = cash_on_hand

C19_SellIsCommitted ==
    /\ (pc = "log_transaction" /\ trade.action = "SELL" =>
          LET n == LogBody(State, TRUE) IN
          n.pc = "update_cash" /\ n.transactions = <<trade>>)
    /\ (pc = "update_cash" /\ trade.action = "SELL" =>
          LET n == UpdateBody(State, TRUE) IN
          /\ n.pc = "done"
          /\ n.outcome = Completed
          /\ n.transactions = <<trade>>
          /\ n.ledger_cash = Num(cash_on_hand + Value(trade)))
    /\ (outcome = Completed /\ trade.action = "SELL" =>
          transactions = <<trade>> /\ ledger_cash = Num(cash_on_hand + Value(trade)))

C19_SellHasNoChecks == C19_SellIsAccepted /\ C19_SellIsCommitted

C19_Witness ==
    /\ variant = "agent"
    /\ outcome = Completed
    /\ trade.action = "SELL"
    /\ cash_on_hand = 0
    /\ Value(trade) > cash_on_hand
    /\ transactions = <<trade>>
    /\ ledger_cash = Num(Value(trade))

\* C20: every cycle ends with exactly one returned (message, status) pair
\* after at most MAX_REASONING_STEPS model calls and at most
\* MAX_REASONING_STEPS dispatches; the step index stays within
\* 0..MAX_REASONING_STEPS and every iteration that goes on (error,
\* insufficient funds, loop detected) has used up its step.
ReturnedOutcomes ==
    {NotInitialized, InitialStateUnreadable, TimeoutHold, ApiErrorsHold,
     ParsingErrorsHold, ForcedHold, Completed, MaxStepsEnded}

C20_OneReturnedOutcomeWithinBudget ==
    /\ i \in 0 .. StepBudget
    /\ model_calls <= StepBudget
    /\ dispatches <= StepBudget
    /\ (pc = "loop" => model_calls = i /\ i < StepBudget)
    /\ (pc = "done" <=> outcome # NoOutcome)
    /\ (pc = "done" => outcome \in ReturnedOutcomes)

\* C21 (as stated): in both variants an empty or undecodable model response
\* never makes the orchestrator act on its own: in that iteration no tool is
\* dispatched and no final decision, not even HOLD, is taken.
Unanswered == {"empty", "undecodable"}

IsParseFailure(x) ==
    \/ x.strict \in {"badaction", "other"}
    \/ x.strict = "fails" /\ x.span \in {"none", "fails", "badaction"}

HoldAnswer == Decision(FINAL_DECISION, [action |-> Str("HOLD"), quantity |-> Num(0)])

Seen(x) ==
    [kind |-> ParseKind(x),
     decision |-> IF ParseKind(x) \in {"json", "embedded"} THEN HoldAnswer ELSE NoDecision]

C22_Decoding(AfterFailure(_)) ==
    (pc = "loop" /\ variant = "agent") =>
        \A x \in Texts, e \in ClockNow, api_ok \in BOOLEAN :
            LET n == PassOn(Seen(x), e, api_ok) IN
            IF IsParseFailure(x)
            THEN /\ n.event = "parse_error"
                 /\ n.dispatches = dispatches
                 /\ n.trade = trade
                 /\ n.transactions = transactions
                 /\ n.ledger_cash = ledger_cash
                 /\ n.consecutive_errors = consecutive_errors + 1
                 /\ IF n.consecutive_errors >= 3
                    THEN n.pc = "done" /\ n.outcome = ParsingErrorsHold
                    ELSE AfterFailure(n)
            ELSE /\ n.event = "hold"
                 /\ n.outcome = Completed
                 /\ n.consecutive_errors = 0

\* C22 (as stated): ... and below a streak of 3 the cycle continues.
C22_CycleGoesOn(n) == n.pc = "loop" /\ n.outcome = NoOutcome

C22_ParseFailureContinues == C22_Decoding(C22_CycleGoesOn)

\* C22 (amended): ... and below a streak of 3 the failure is noted in the
\* history and only uses up the step: the cycle continues while a step
\* remains, and a failure on the last step ends it with the max-steps
\* outcome (never with an error).
C22_StepUsedUp(n) ==
    /\ n.i = i + 1
    /\ n.history = Append(history, "grok_error")
    /\ IF i + 1 < MAX_REASONING_STEPS
       THEN n.pc = "loop" /\ n.outcome = NoOutcome
       ELSE n.pc = "done" /\ n.outcome = MaxStepsEnded

C22_ParseFailureUsesUpTheStep == C22_Decoding(C22_StepUsedUp)

C22_Witness ==
    /\ variant = "agent"
    /\ event = "parse_error"
    /\ consecutive_errors = 1
    /\ pc = "loop"
    /\ dispatches = 1
    /\ history[Len(history)] = "grok_error"

\* C23: a BUY whose quantity x target_price exactly equals cash_on_hand is
\* accepted (only a strictly greater value is rejected), and its commit
\* writes 0 to the cash cell.
ExactBuys ==
    { d \in TradeDecisions :
        /\ d.parameters.action = Str("BUY")
        /\ d.parameters.quantity.v * d.parameters.target_price.v = cash_on_hand }

C23_ExactBuyIsCommitted ==
    /\ pc = "loop" =>
          \A d \in ExactBuys, e \in ClockNow, api_ok \in BOOLEAN :
              LET n == PassOn(Answer(d), e, api_ok) IN
              /\ n.pc = "log_transaction"
              /\ n.event = "commit"
              /\ n.trade = [action |-> "BUY", quantity |-> d.parameters.quantity.v,
                            price |-> d.parameters.target_price.v]
              /\ n.history = history
    /\ (pc = "update_cash" /\ trade.action = "BUY" /\ Value(trade) = cash_on_hand) =>
          LET n == UpdateBody(State, TRUE) IN
          n.ledger_cash = Num(0) /\ n.outcome = Completed /\ n.transactions = <<trade>>
    /\ (outcome = Completed /\ trade.action = "BUY" /\ Value(trade) = cash_on_hand) =>
          ledger_cash = Num(0) /\ transactions = <<trade>>

C23_Witness ==
    /\ outcome = Completed
    /\ trade.action = "BUY"
    /\ cash_on_hand = MaxCash
    /\ Value(trade) = cash_on_hand
    /\ ledger_cash = Num(0)
    /\ transactions = <<trade>>

\* C24: when the cash read at the start of the cycle is not negative, the
\* value a commit writes to the cash cell is not negative, whatever quantity
\* and target_price the model supplies.
C24_CommittedCashNotNegative ==
    (outcome = Completed /\ IsBuyOrSell(trade) /\ cash_on_hand >= 0)
        => ledger_cash.v >= 0

\* C25: when two cycles have run concurrently on the same ledger and both
\* have ended, the cash cell equals the initial cash minus the values of all
\* logged BUYs plus the values of all logged SELLs, and the logged BUYs are
\* together worth no more than the cash that was there for them.
RECURSIVE Total(_, _)
Total(rows, action) ==
    IF rows = <<>>
    THEN 0
    ELSE (IF Head(rows).action = action THEN Value(Head(rows)) ELSE 0)
         + Total(Tail(rows), action)

BothEnded == \A c \in Cycles : concurrent.cycle[c].pc = "done"

C25_NoTradeIsLost ==
    (concurrent # NoCycles /\ BothEnded) =>
        /\ concurrent.cash
              = MaxCash - Total(concurrent.rows, "BUY") + Total(concurrent.rows, "SELL")
        /\ Total(concurrent.rows, "BUY") <= MaxCash + Total(concurrent.rows, "SELL")

\* C26: the cycle's cash_on_hand is fetched from the ledger once, by the
\* reads at the start of the cycle; no step of the loop or of the commit (a
\* dispatch, one that rewrites the cash cell included, a rejection, an
\* error, a guard) changes it, so every funds check of the cycle compares
\* the BUY's value with the cash read at the start, whatever the cash cell
\* holds by then.
C26_CashFetchedOnce ==
    /\ (pc = "start" /\ pc' = "loop" => cash_on_hand' = ledger_cash.v)
    /\ (pc = "start" /\ pc' # "loop" => cash_on_hand' = cash_on_hand)
    /\ (pc # "start" => cash_on_hand' = cash_on_hand)

BuyDecisions == { d \in TradeDecisions : d.parameters.action = Str("BUY") }

C26_FundsCheckUsesIt ==
    pc = "loop" =>
        \A d \in BuyDecisions, e \in ClockNow, api_ok \in BOOLEAN :
            LET n == PassOn(Answer(d), e, api_ok)
                value == d.parameters.quantity.v * d.parameters.target_price.v
            IN  \/ variant = "root" /\ n.event = "loop_detected"
                \/ /\ n.event = "insufficient_funds" <=> value > cash_on_hand
                   /\ n.event = "commit" <=> value <= cash_on_hand

C26_CashIsASnapshot ==
    [] C26_FundsCheckUsesIt /\ [][C26_CashFetchedOnce]_vars

C26_Witness ==
    /\ variant = "agent"
    /\ event = "commit"
    /\ pc = "log_transaction"
    /\ ledger_cash = Num(0)
    /\ cash_on_hand = MaxCash
    /\ trade.action = "BUY"
    /\ Value(trade) = MaxCash

\* C28: in call_grok_api, after failed attempt k (counted from 0) that is
\* not the last one the function sleeps exactly 2^k seconds and then makes
\* attempt k+1; it does not sleep after the last failed attempt nor after
\* an answered one; with the default max_retries of 3 a call in which every
\* attempt fails has slept 1 + 2 = 3 seconds.
C28_SleptSoFar ==
    grok # NoCall =>
        /\ grok.slept = 2 ^ grok.attempt - 1
        /\ (grok.pc = "sleep" =>
              grok.last \notin Answered /\ grok.attempt < grok.max_retries - 1)
        /\ (grok.pc = "returned" /\ grok.result = Null
                /\ grok.max_retries = DEFAULT_MAX_RETRIES => grok.slept = 1 + 2)

C28_SleepBetweenAttempts ==
    /\ (grok.pc = "sleep" =>
          /\ grok'.slept = grok.slept + 2 ^ grok.attempt
          /\ grok'.waited = grok.waited + 2 ^ grok.attempt
          /\ grok'.attempt = grok.attempt + 1
          /\ grok'.pc = "attempt"
          /\ grok'.posts = grok.posts)
    /\ (grok.pc = "attempt" =>
          /\ grok'.slept = grok.slept
          /\ grok'.posts = grok.posts + 1
          /\ (grok'.pc = "sleep" <=>
                grok'.last \notin Answered /\ grok.attempt < grok.max_retries - 1)
          /\ (grok'.last \notin Answered /\ grok.attempt = grok.max_retries - 1 =>
                grok'.pc = "returned" /\ grok'.result = Null))

C28_BackoffIsExponential ==
    [] C28_SleptSoFar /\ [][C28_SleepBetweenAttempts]_vars

C28_Witness ==
    /\ grok.caller = "run_investment_cycle"
    /\ grok.pc = "returned"
    /\ grok.result = Null
    /\ grok.posts = 3
    /\ grok.slept = 3
    /\ grok.last = "timeout"
    /\ grok.waited = 90 + 1 + 120 + 2 + 150

\* C27: the history is append-only (every later history has every earlier
\* one as a prefix); the history text build_react_prompt places in a prompt
\* is the whole history when that is at most N characters long and else
\* "..." followed by exactly its last N characters (N = 4000 in
\* src/investment-agent/main.py, 2000 in src/main.py), so never more than
\* N + 3 characters; and building a prompt leaves the history itself as it
\* was.
IsPrefix(a, b) == TextLen(a) <= TextLen(b) /\ FirstChars(b, TextLen(a)) = a

C27_WindowOfVariant ==
    prompting.N = (IF variant = "agent" THEN 4000 ELSE 2000)

C27_ShownIsTheTail ==
    prompting.built =>
        LET h == prompting.history
            s == prompting.shown
            N == prompting.N
        IN  /\ C27_WindowOfVariant
            /\ TextLen(s) <= N + 3
            /\ IF TextLen(h) <= N
               THEN s = h
               ELSE /\ TextLen(s) = N + 3
                    /\ FirstChars(s, 3) = <<Run(".", 3)>>
                    /\ Concat(FirstChars(h, TextLen(h) - N), LastChars(s, N)) = h

C27_HistoryOnlyGrows ==
    /\ IsPrefix(prompting.history, prompting'.history)
    /\ (prompting'.appends = prompting.appends =>
          prompting'.history = prompting.history)
    /\ (prompting'.appends # prompting.appends =>
          /\ TextLen(prompting'.history) > TextLen(prompting.history)
          /\ prompting'.shown = prompting.shown)

C27_HistoryAndItsWindow ==
    [] C27_ShownIsTheTail /\ [][C27_HistoryOnlyGrows]_vars

C27_Witness ==
    /\ variant = "agent"
    /\ prompting.built
    /\ prompting.history = <<Run("c", 30), Run("b", 3970), Run("a", 1)>>
    /\ prompting.shown = <<Run(".", 3), Run("c", 29), Run("b", 3970), Run("a", 1)>>

\* C29: in src/main.py recent_actions never holds more than 3 entries and
\* is, oldest first, the signatures of the (up to) 3 most recent iterations
\* that chose a non-null tool, whether the model or the orchestrator's own
\* fallback chose it; an iteration that ends in `except Exception` adds
\* nothing to it; and two decisions with the same tool_name and the same
\* parameters written in a different key order have the same signature.
C29_KeysAscend(items) ==
    \A a, b \in 1 .. Len(items) : a < b => KeyRank(items[a][1]) < KeyRank(items[b][1])

C29_IsSignatureOf(sig, c) ==
    /\ c.tool_name # NoTool
    /\ ~c.raised
    /\ sig[1] = c.tool_name
    /\ AsMapping(sig[2]) = AsMapping(c.items)
    /\ Len(sig[2]) = Len(c.items)
    /\ C29_KeysAscend(sig[2])

C29_SameAction(c1, c2) ==
    c1.tool_name = c2.tool_name /\ AsMapping(c1.items) = AsMapping(c2.items)

C29_BufferIsTheLastThree ==
    LET r == signing.recent_actions
        c == signing.chosen
    IN  /\ Len(r) <= 3
        /\ Len(r) = (IF Len(c) < 3 THEN Len(c) ELSE 3)
        /\ \A k \in 1 .. Len(r) : C29_IsSignatureOf(r[k], c[Len(c) - Len(r) + k])

C29_KeyOrderIsIrrelevant ==
    LET r == signing.recent_actions
        c == signing.chosen
        at(k) == Len(c) - Len(r) + k
    IN  /\ \A a, b \in 1 .. Len(c) :
              C29_SameAction(c[a], c[b]) =>
                  signature_text(c[a].tool_name, c[a].items)
                      = signature_text(c[b].tool_name, c[b].items)
        /\ \A a, b \in 1 .. Len(r) :
              (r[a] = r[b]) <=> C29_SameAction(c[at(a)], c[at(b)])

C29_ExceptionAddsNothing ==
    signing'.event = "api_error" =>
        /\ signing'.recent_actions = signing.recent_actions
        /\ signing'.chosen = signing.chosen

C29_RecentActions ==
    /\ [] (C29_BufferIsTheLastThree /\ C29_KeyOrderIsIrrelevant)
    /\ [][C29_ExceptionAddsNothing]_vars

C29_Witness ==
    /\ signing.pc = "done"
    /\ signing.i = ROOT_MAX_REASONING_STEPS - 1
    /\ signing.event = "api_error"
    /\ Len(signing.chosen) = 4
    /\ Len(signing.recent_actions) = 3
    /\ signing.chosen[1].tool_name = "web_search"
    /\ signing.recent_actions[1][1] = "sheets_update_cell_value"
    /\ signing.chosen[3].items # signing.chosen[4].items
    /\ C29_SameAction(signing.chosen[3], signing.chosen[4])
    /\ signing.recent_actions[2] = signing.recent_actions[3]

\* C30 (as stated): in src/main.py, in an iteration whose chosen action has
\* the signature of the two recorded before it, the action is not executed
\* (no tool call, no transaction append, no cash write), a loop-detected
\* observation is appended to the history and the loop proceeds to the
\* next step; an action with a different signature is executed normally.
C30_Chosen(r) == IF r.kind = "json" THEN r.decision ELSE RootFallback(i, r.kind)

C30_Choosing == { r \in Responses : r.kind # "nonmapping" /\ C30_Chosen(r).tool_name # NoTool }

C30_NotExecuted(n) ==
    /\ n.dispatches = dispatches
    /\ n.transactions = transactions
    /\ n.ledger_cash = ledger_cash
    /\ n.trade = trade
    /\ n.cash_on_hand = cash_on_hand
    /\ n.event = "loop_detected"
    /\ n.history = Append(history, "loop_detected")
    /\ n.recent_actions = <<recent_actions[Len(recent_actions)],
                             recent_actions[Len(recent_actions)],
                             recent_actions[Len(recent_actions)]>>
    /\ n.i = i + 1

\* what the iteration does when no repetition guard is in its way
C30_ExecutedNormally(n, r, api_ok) ==
    /\ n.event # "loop_detected"
    /\ n = [RootBody([State EXCEPT !.recent_actions = <<>>], r, api_ok)
                EXCEPT !.recent_actions = n.recent_actions]
    /\ n.recent_actions[Len(n.recent_actions)]
          = <<C30_Chosen(r).tool_name, C30_Chosen(r).parameters>>

C30_RepeatSkippedLoopGoesOn ==
    (variant = "root" /\ pc = "loop") =>
        \A r \in C30_Choosing, api_ok \in BOOLEAN :
            LET n == PassOn(r, 0, api_ok) IN
            IF ThirdInARow(C30_Chosen(r))
            THEN C30_NotExecuted(n) /\ n.pc = "loop"
            ELSE C30_ExecutedNormally(n, r, api_ok)

\* C30 (amended): in src/main.py, in an iteration whose chosen action (the
\* model's, or the one substituted for an empty or undecodable answer) has
\* the signature of the two recorded before it, the action is not executed
\* (no tool call, no final decision, no transaction append, no cash
\* write), a loop-detected observation is appended to the history and the
\* step is used up: the loop proceeds to the next step while one remains,
\* and on the last step index the cycle ends with "Cycle ended due to max
\* steps.".  An action whose signature differs from either of the two
\* recorded before it is executed exactly as it would be with an empty
\* buffer.
C30_RepeatSkippedStepUsedUp ==
    (variant = "root" /\ pc = "loop") =>
        \A r \in C30_Choosing, api_ok \in BOOLEAN :
            LET n == PassOn(r, 0, api_ok) IN
            IF ThirdInARow(C30_Chosen(r))
            THEN /\ C30_NotExecuted(n)
                 /\ IF i + 1 < ROOT_MAX_REASONING_STEPS
                    THEN n.pc = "loop" /\ n.outcome = NoOutcome
                    ELSE n.pc = "done" /\ n.outcome = MaxStepsEnded
            ELSE C30_ExecutedNormally(n, r, api_ok)

C30_Witness ==
    /\ variant = "root"
    /\ \E k \in 1 .. Len(history) : history[k] = "loop_detected"
    /\ Len(recent_actions) = 3
    /\ recent_actions[1] = recent_actions[2]
    /\ recent_actions[2] # recent_actions[3]
    /\ recent_actions[3][1] = FINAL_DECISION
    /\ outcome = Completed
    /\ Len(transactions) = 1

\* C31: log_transaction is called only in an iteration whose decision is a
\* final_decision BUY or SELL that passed the funds check, and a transaction
\* record is appended by nothing else.  In src/investment-agent/main.py the
\* iteration in which a cycle ends by the deadline, by the error streak, by
\* the forced HOLD, by a declined answer or by running out of steps appends
\* no transaction record and leaves the ledger cash cell as it was.
C31_QuietEndings ==
    {TimeoutHold, ApiErrorsHold, ParsingErrorsHold, ForcedHold, MaxStepsEnded}

C31_LoggingIsACommit ==
    pc = "log_transaction" =>
        /\ event = "commit"
        /\ IsBuyOrSell(trade)
        /\ ~(trade.action = "BUY" /\ Value(trade) > cash_on_hand)
        /\ transactions = <<>>

C31_OnlyLoggingAppends ==
    /\ (transactions' # transactions =>
          /\ pc = "log_transaction"
          /\ transactions' = Append(transactions, trade))
    /\ (pc' = "log_transaction" /\ pc # "log_transaction" =>
          /\ pc = "loop"
          /\ event' = "commit"
          /\ dispatches' = dispatches + 1
          /\ \E d \in TradeDecisions \cup OtherFinalDecisions :
                /\ Get(d.parameters, "action", Str("HOLD")).t = "str"
                /\ Upper(Get(d.parameters, "action", Str("HOLD")).v) = trade'.action
                /\ Get(d.parameters, "quantity", Num(0)) = Num(trade'.quantity)
                /\ Get(d.parameters, "target_price", Num(0)) = Num(trade'.price)
          /\ history' = history)

C31_QuietEnding ==
    (variant = "agent" /\ pc = "loop" /\ pc' = "done" /\ outcome' \in C31_QuietEndings)
        => /\ transactions' = transactions
           /\ ledger_cash' = ledger_cash
           /\ transactions' = <<>>
           /\ trade' = NoTrade

C31_TransactionsOnlyFromCommits ==
    [] C31_LoggingIsACommit /\ [][C31_OnlyLoggingAppends /\ C31_QuietEnding]_vars

C31_Witness ==
    /\ variant = "agent"
    /\ outcome = MaxStepsEnded
    /\ event = "insufficient_funds"
    /\ i = MAX_REASONING_STEPS
    /\ ledger_cash = Num(0)
    /\ cash_on_hand = MaxCash
    /\ transactions = <<>>

\* C32: within a cycle the ledger cash cell changes only in the commit step
\* of a BUY or SELL final_decision; no tool dispatch changes it.
C32_CommitWritesCash ==
    ledger_cash' # ledger_cash =>
        /\ pc = "update_cash"
        /\ IsBuyOrSell(trade)
        /\ event' # "tool"

C32_OnlyCommitWritesCash == [][C32_CommitWritesCash]_vars

\* C33: at every commit the value written to the cash cell is the value the
\* cell held immediately before the commit minus (BUY) or plus (SELL)
\* quantity x price, and a committed BUY is worth no more than the cell held
\* at that moment, whatever was dispatched earlier in the cycle.
C33_CommitFromLedger ==
    (pc = "update_cash" /\ pc' = "done" /\ outcome' = Completed) =>
        /\ ledger_cash'.v = CashAfter(trade, ledger_cash.v)
        /\ (trade.action = "BUY" => Value(trade) <= ledger_cash.v)

C33_CommitUsesLedgerCash == [][C33_CommitFromLedger]_vars

\* C34: whatever quantity and target_price the model supplies, a committed
\* BUY leaves the cash cell no higher than the cash the cycle started with
\* and a committed SELL leaves it no lower.
C34_BuyNeverAddsSellNeverTakes ==
    (outcome = Completed /\ IsBuyOrSell(trade)) =>
        /\ (trade.action = "BUY" => ledger_cash.v <= cash_on_hand)
        /\ (trade.action = "SELL" => ledger_cash.v >= cash_on_hand)

\* C35: a final_decision whose action, upper-cased, is neither BUY nor SELL
\* (HOLD in any case, an unrecognised word, or no action at all, which
\* defaults to HOLD) ends the cycle with "Investment cycle completed."
\* without appending a transaction record and without writing the cash
\* cell; and the action is matched after upper-casing, so "buy" and "sell"
\* are handled exactly as BUY and SELL are.
C35_Final(action, q, p) ==
    Decision(FINAL_DECISION,
             [action |-> Str(action), quantity |-> Num(q), target_price |-> Num(p)])

C35_NoTrades ==
    { C35_Final(w, 1, 1) : w \in {"HOLD", "hold", "wait", "WAIT"} }
    \cup { Decision(FINAL_DECISION, [quantity |-> Num(1), target_price |-> Num(1)]),
           Decision(FINAL_DECISION, <<>>) }

C35_Lower(action) == IF action = "BUY" THEN "buy" ELSE "sell"

C35_NoTradeCompletes ==
    pc = "loop" =>
        \A d \in C35_NoTrades, e \in ClockNow, api_ok \in BOOLEAN :
            LET n == PassOn(Answer(d), e, api_ok) IN
            /\ n.pc = "done"
            /\ n.outcome = Completed
            /\ n.transactions = transactions
            /\ n.ledger_cash = ledger_cash
            /\ n.trade.quantity = 0
            /\ n.trade.action \notin {"BUY", "SELL"}

C35_CaseIsIgnored ==
    pc = "loop" =>
        \A a \in {"BUY", "SELL"}, q \in Quantities, p \in Prices,
           e \in ClockNow, api_ok \in BOOLEAN :
            LET lower == C35_Final(C35_Lower(a), q, p)
                upper == C35_Final(a, q, p)
                n == PassOn(Answer(lower), e, api_ok)
            IN  (~ThirdInARow(lower) /\ ~ThirdInARow(upper)) =>
                  /\ [n EXCEPT !.recent_actions = <<>>]
                       = [PassOn(Answer(upper), e, api_ok) EXCEPT !.recent_actions = <<>>]
                  /\ IF a = "BUY" /\ q * p > cash_on_hand
                     THEN n.event = "insufficient_funds"
                     ELSE /\ n.pc = "log_transaction"
                          /\ n.trade = [action |-> a, quantity |-> q, price |-> p]

C35_OnlyBuyAndSellTrade == C35_NoTradeCompletes /\ C35_CaseIsIgnored

C35_Witness ==
    /\ variant = "root"
    /\ outcome = Completed
    /\ recent_actions[Len(recent_actions)]
         = <<FINAL_DECISION, [quantity |-> Num(1), target_price |-> Num(1)]>>
    /\ trade.action = "HOLD"
    /\ transactions = <<>>
    /\ Len(recent_actions) = 2

\* C36: ToolHandler.web_search sends the prompt a second time, without live
\* search, exactly when the live-search call returned None or an empty
\* text; one dispatch makes at most two call_grok_api calls and at most 6
\* HTTP requests; it raises nothing; and whatever the two calls returned,
\* None included, the dispatch ends with an observation appended to the
\* history and the loop going on to its next step.
C36_Nothing == {Null, Str("")}

C36_Searching == grok.caller \in {"web_search", "web_search_fallback"}

C36_AtMostTwoCalls ==
    C36_Searching =>
        /\ grok.calls = (IF grok.caller = "web_search" THEN 1 ELSE 2)
        /\ grok.use_live_search = (grok.caller = "web_search")
        /\ grok.max_retries = 3
        /\ grok.posts <= 3
        /\ grok.requests <= 6
        /\ (grok.caller = "web_search" => grok.requests = grok.posts)
        /\ (grok.caller = "web_search_fallback" => grok.requests - grok.posts \in 1 .. 3)
        /\ outcome # Unhandled
        /\ (grok.pc = "returned" => grok.result \in {Str("text"), Str(""), Null})
        \* the live search answered nothing: the fallback is what follows
        /\ (grok.caller = "web_search" /\ grok.pc = "returned"
                /\ grok.result \in C36_Nothing =>
              dispatches = 0 /\ ENABLED WebSearchFallback /\ ~ENABLED WebSearchObserved)
        \* it answered: no fallback, the dispatch returns
        /\ (grok.caller = "web_search" /\ grok.pc = "returned"
                /\ grok.result \notin C36_Nothing =>
              ~ENABLED WebSearchFallback /\ (dispatches = 0 => ENABLED WebSearchObserved))
        /\ (grok.caller = "web_search_fallback" /\ grok.pc = "returned" =>
              ~ENABLED WebSearchFallback /\ (dispatches = 0 => ENABLED WebSearchObserved))
        /\ (dispatches # 0 =>
              /\ dispatches = 1
              /\ grok.pc = "returned"
              /\ pc = "loop"
              /\ outcome = NoOutcome
              /\ event = "tool"
              /\ history = <<"started", "observation">>
              /\ (grok.caller = "web_search" => grok.result = Str("text")))

C36_FallbackAndObservation ==
    /\ (grok'.caller = "web_search_fallback" /\ grok.caller # "web_search_fallback" =>
          /\ grok.caller = "web_search"
          /\ grok.pc = "returned"
          /\ grok.result \in C36_Nothing
          /\ grok'.requests = grok.requests
          /\ UNCHANGED CycleVars)
    /\ (dispatches' # dispatches =>
          /\ C36_Searching
          /\ grok.pc = "returned"
          /\ grok' = grok
          /\ history' = Append(history, "observation")
          /\ i' = i + 1
          /\ pc' = "loop"
          /\ dispatches' = dispatches + 1
          /\ consecutive_errors' = consecutive_errors
          /\ ledger_cash' = ledger_cash
          /\ transactions' = transactions)

C36_WebSearchFallsBackOnce ==
    [] C36_AtMostTwoCalls /\ [][C36_FallbackAndObservation]_vars

C36_Witness ==
    /\ grok.caller = "web_search_fallback"
    /\ grok.pc = "returned"
    /\ dispatches = 1
    /\ grok.result = Null
    /\ grok.calls = 2
    /\ grok.requests = 6
    /\ pc = "loop"
    /\ i = FORCE_DECISION_STEP
    /\ history = <<"started", "observation">>

\* C37: get_accurate_stock_price(symbol, max_retries) makes at most
\* max_retries requests (2 by default, which is what the tools use) and
\* always returns a price record or a failure text, raising nothing; an
\* attempt is followed by another only when it raised, met a provider
\* error, met no summary or met price 0, and only while attempts remain;
\* and a provider error, a missing summary or an exception on the last
\* attempt is returned as a failure, never as a price record.
C37_Unsuccessful == {"zero", "error", "no_summary", "raises"}

C37_AttemptsAndResult ==
    LET c == pricing.call IN
    c # NoPriceCall =>
        /\ c.pc \in {"attempt", "returned"}
        /\ c.requests <= c.max_retries
        /\ (pricing.caller = "get_multiple_stock_prices" => c.max_retries = 2)
        /\ (c.pc = "attempt" =>
              /\ c.requests = c.attempt
              /\ c.attempt < c.max_retries
              /\ c.last \in C37_Unsuccessful \cup {"none"}
              /\ c.result = Pending)
        /\ (c.pc = "returned" =>
              /\ c.result.t \in {"record", "failure"}
              /\ (c.result.t = "record" =>
                    /\ c.last \in {"price", "zero"}
                    /\ c.result.symbol = c.symbol
                    /\ (c.last = "zero" =>
                          c.requests = c.max_retries /\ c.result.price = 0))
              /\ (c.result.t = "failure" =>
                    /\ c.requests = c.max_retries
                    /\ c.last \in {"error", "no_summary", "raises", "none"}
                    /\ (c.last = "none" <=> c.max_retries = 0))
              /\ (c.last \in {"error", "no_summary", "raises"} =>
                    c.result.t = "failure"))

C37_RetryOnlyWhenUnsuccessful ==
    LET c == pricing.call
        d == pricing'.call
    IN  (c.pc = "attempt" /\ d # c /\ d.symbol = c.symbol /\ d.requests = c.requests + 1) =>
            /\ (d.pc = "attempt" <=>
                  d.last \in C37_Unsuccessful /\ c.attempt + 1 < c.max_retries)
            /\ (d.pc = "attempt" => d.attempt = c.attempt + 1)
            /\ d.max_retries = c.max_retries

C37_PriceLookupIsBounded ==
    [] C37_AttemptsAndResult /\ [][C37_RetryOnlyWhenUnsuccessful]_vars

C37_Witness ==
    /\ pricing.caller = "direct"
    /\ pricing.call.pc = "returned"
    /\ pricing.call.max_retries = 3
    /\ pricing.call.requests = 3
    /\ pricing.call.last = "no_summary"
    /\ pricing.call.result = Failure("No summary data found")

\* C38: ToolHandler.get_multiple_stock_prices looks every requested symbol
\* up, one after the other in the order of the request, and renders exactly
\* one entry per distinct symbol, in the order in which the symbols first
\* appear in the request; a lookup that failed yields the error entry for
\* its symbol and neither stops nor reorders the lookups of the others.
RECURSIVE C38_Distinct(_)
C38_Distinct(symbols) ==
    IF symbols = <<>>
    THEN <<>>
    ELSE LET front == SubSeq(symbols, 1, Len(symbols) - 1)
             last == symbols[Len(symbols)]
         IN  IF \E n \in 1 .. Len(front) : front[n] = last
             THEN C38_Distinct(front)
             ELSE Append(C38_Distinct(front), last)

C38_LastLookup(symbols, symbol) ==
    CHOOSE n \in 1 .. Len(symbols) :
        /\ symbols[n] = symbol
        /\ \A m \in n + 1 .. Len(symbols) : symbols[m] # symbol

C38_Multiple == pricing.caller = "get_multiple_stock_prices"

\* the symbols looked up so far
C38_Done ==
    SubSeq(pricing.symbols, 1,
           IF pricing.pc = "rendered" THEN Len(pricing.symbols) ELSE pricing.k - 1)

C38_OneEntryPerSymbol ==
    C38_Multiple =>
        LET done == C38_Done
            order == C38_Distinct(done)
        IN  /\ pricing.pc \in {"lookup", "rendered"}
            /\ Len(pricing.results) = Len(done)
            /\ (pricing.pc = "lookup" =>
                  pricing.k \in 1 .. Len(pricing.symbols)
                  /\ pricing.call.symbol = pricing.symbols[pricing.k])
            /\ (pricing.pc = "rendered" => pricing.k = Len(pricing.symbols))
            /\ Len(pricing.prices) = Len(order)
            /\ \A n \in 1 .. Len(order) :
                  LET result == pricing.results[C38_LastLookup(done, order[n])] IN
                  /\ pricing.prices[n][1] = order[n]
                  /\ result.t \in {"record", "failure"}
                  /\ IF result.t = "failure"
                     THEN pricing.prices[n][2] = [t |-> "error"]
                     ELSE pricing.prices[n][2] = [t |-> "price", price |-> result.price]

C38_LookupsInOrder ==
    (C38_Multiple /\ pricing'.results # pricing.results) =>
        /\ pricing'.results = Append(pricing.results, pricing.call.result)
        /\ pricing'.symbols = pricing.symbols
        /\ \A n \in 1 .. Len(pricing.prices) :
              /\ pricing'.prices[n][1] = pricing.prices[n][1]
              /\ (pricing.prices[n][1] # pricing.symbols[pricing.k] =>
                    pricing'.prices[n] = pricing.prices[n])
        /\ IF pricing.k < Len(pricing.symbols)
           THEN pricing'.pc = "lookup" /\ pricing'.k = pricing.k + 1
           ELSE pricing'.pc = "rendered"

C38_PricesInRequestOrder ==
    [] C38_OneEntryPerSymbol /\ [][C38_LookupsInOrder]_vars

C38_Witness ==
    /\ pricing.pc = "rendered"
    /\ pricing.symbols = <<"MSFT", "AAPL", "MSFT">>
    /\ pricing.results[1].t = "failure"
    /\ pricing.results[2].t = "failure"
    /\ pricing.prices = << <<"MSFT", [t |-> "price", price |-> 1]>>,
                           <<"AAPL", [t |-> "error"]>> >>

====
